---- MODULE Spec2Model ----
(***************************************************************************)
(* Terminal history analyzer: lexer, parser, virtual filesystem machine,   *)
(* semantic analyzer and the request handlers that sequence them.          *)
(*                                                                         *)
(* Go strings are TLA+ strings; a character is a string of length one.     *)
(* Positions are 0-based byte offsets as in the source.  Accented letters  *)
(* of the source's messages are written without the accent.                *)
(***************************************************************************)
EXTENDS Integers, Sequences, FiniteSets, TLC

VARIABLES
    lex,            \* the Lexer object: input, position, line, tokens, errors
    lexPc,          \* where Lexer.Tokenize is: "idle", "scan" or "done"
    parser,         \* the Parser object: tokens, position, commands, errors, warnings
    parsePc,        \* where Parser.Parse is: "idle", "parse" or "done"
    commands,       \* the command list handed to Analyzer.Analyze
    analyzers,      \* the Analyzer objects, one per run of Analyze
    analyzed,       \* the runs whose Analyze has returned
    fsState,        \* a FileSystemState replaying commands one at a time
    last,           \* the last command replayed on fsState: the command, the errors
                    \* it returned and the state it was replayed on
    prevMkdir,      \* p when the command before the last one was `mkdir p` and p
                    \* resolved to no known directory then; NoPath otherwise
    nCmds,          \* the number of commands replayed on fsState
    globalMonitor,  \* the Monitor shared by all requests
    monitorWriters, \* the requests that have written globalMonitor's report
    reqs,           \* the requests being served, each with its own objects
    spell           \* the spelling-suggestions request: its command and its response

lexVars == <<lex, lexPc>>
parseVars == <<parser, parsePc>>
anVars == <<commands, analyzers, analyzed>>
fsVars == <<fsState, last, prevMkdir, nCmds>>
reqVars == <<globalMonitor, monitorWriters, reqs>>
spellVars == <<spell>>
vars == <<lex, lexPc, parser, parsePc, commands, analyzers, analyzed,
          fsState, last, prevMkdir, nCmds, globalMonitor, monitorWriters, reqs,
          spell>>

(***************************************************************************)
(* Bounds of the model.                                                    *)
(***************************************************************************)
MaxInputLen == 3
MaxCmds == 3
MaxListLen == 2
MaxParseLen == 5

(***************************************************************************)
(* The parts of the state a specification does not use stay idle.          *)
(***************************************************************************)
Idle == "idle"
NoPath == "<none>"

IdleLex == lex = Idle /\ lexPc = Idle
IdleParse == parser = Idle /\ parsePc = Idle
IdleAn == commands = <<>> /\ analyzers = <<>> /\ analyzed = {}
IdleFs == fsState = Idle /\ last = Idle /\ prevMkdir = NoPath /\ nCmds = 0
IdleReq == globalMonitor = Idle /\ monitorWriters = {} /\ reqs = <<>>
IdleSpell == spell = Idle

(***************************************************************************)
(* Strings.                                                                *)
(***************************************************************************)
Letters ==
    {"a","b","c","d","e","f","g","h","i","j","k","l","m","n","o","p","q","r",
     "s","t","u","v","w","x","y","z",
     "A","B","C","D","E","F","G","H","I","J","K","L","M","N","O","P","Q","R",
     "S","T","U","V","W","X","Y","Z"}

Digits == {"0","1","2","3","4","5","6","7","8","9"}

\* regexp \w and \s
WordClass == Letters \cup Digits \cup {"_"}
SpaceClass == {" ", "\t", "\n", "\r", "\f"}

\* rune 0, what current() returns past the end of the input
NUL == "<NUL>"

\* the byte at 0-based index i of s
ByteAt(s, i) == SubSeq(s, i + 1, i + 1)

\* s[from:to] of Go, 0-based, to exclusive
Slice(s, from, to) == SubSeq(s, from + 1, to)

HasPrefix(s, prefix) ==
    Len(s) >= Len(prefix) /\ SubSeq(s, 1, Len(prefix)) = prefix

HasSuffix(s, suffix) ==
    Len(s) >= Len(suffix) /\ SubSeq(s, Len(s) - Len(suffix) + 1, Len(s)) = suffix

\* strings.Contains
Contains(s, sub) ==
    \E i \in 1..(Len(s) + 1) :
        i + Len(sub) - 1 <= Len(s) /\ SubSeq(s, i, i + Len(sub) - 1) = sub

(***************************************************************************)
(* Regular expressions, as sets of positions (1-based, Len+1 = the end).   *)
(* A pattern maps the set of positions where a match may start to the set  *)
(* of positions where it may end; MatchString is an unanchored search.     *)
(***************************************************************************)
AllPos(s) == 1..(Len(s) + 1)

ReLit(s, P, lit) ==
    {p + Len(lit) : p \in {q \in P : q + Len(lit) - 1 <= Len(s)
                                      /\ SubSeq(s, q, q + Len(lit) - 1) = lit}}

\* one character of the class (neg: one character not of the class)
ReOne(s, P, class, neg) ==
    {p + 1 : p \in {q \in P : q <= Len(s) /\ ((SubSeq(s, q, q) \in class) # neg)}}

\* zero or more characters of the class (neg: not of the class)
ReStar(s, P, class, neg) ==
    {q \in AllPos(s) :
        \E p \in P : p <= q /\ \A k \in p..(q - 1) : (SubSeq(s, k, k) \in class) # neg}

\* one or more characters of the class (neg: not of the class)
RePlus(s, P, class, neg) == ReStar(s, ReOne(s, P, class, neg), class, neg)

\* an optional literal
ReOpt(s, P, lit) == P \cup ReLit(s, P, lit)

\* ".*" of Go's regexp: any characters but newline
ReDotStar(s, P) == ReStar(s, P, {"\n"}, TRUE)

(***************************************************************************)
(* Lexer (package lexer).                                                  *)
(***************************************************************************)
NewLexer(input) ==
    [input |-> input, position |-> 0, line |-> 1, tokens |-> <<>>, errors |-> <<>>]

current(l) ==
    IF l.position >= Len(l.input) THEN NUL ELSE ByteAt(l.input, l.position)

addToken(l, tokenType, value) ==
    [l EXCEPT !.tokens = Append(@, [Type |-> tokenType, Value |-> value,
                                    Position |-> l.position - Len(value),
                                    Line |-> l.line])]

addError(l, message) ==
    [l EXCEPT !.errors = Append(@, [Message |-> message, Line |-> l.line,
                                    Position |-> l.position])]

advance(l, n) == [l EXCEPT !.position = @ + n]

isWhitespace(l) == current(l) = " " \/ current(l) = "\t"

isRedirect(l) == current(l) = ">" \/ current(l) = "<"

isAlphaNumeric(l) ==
    LET c == current(l)
    IN  c \in Letters \/ c \in Digits \/ c = "/" \/ c = "~"

Operators == {";", "&", "(", ")", "[", "]", "{", "}", "*", "?", "$"}

isOperator(l) == current(l) \in Operators

\* the loop of isStartOfCommand, from index i downwards
RECURSIVE StartScan(_, _)
StartScan(input, i) ==
    IF i < 0 THEN FALSE
    ELSE LET c == ByteAt(input, i)
         IN  IF c = "\n" \/ c = ";" \/ c = "|" THEN TRUE
             ELSE IF c # " " /\ c # "\t" THEN FALSE
             ELSE StartScan(input, i - 1)

isStartOfCommand(l, pos) ==
    IF pos = 0 THEN TRUE ELSE StartScan(l.input, pos - 1)

\* regexp.MustCompile(`https?://[^\s]+`).MatchString
urlPattern(word) ==
    RePlus(word,
           ReLit(word, ReOpt(word, ReLit(word, AllPos(word), "http"), "s"), "://"),
           SpaceClass, TRUE) # {}

\* regexp.MustCompile(`[~/][\w\-\./_]*`).MatchString
pathPattern(word) ==
    ReStar(word,
           ReOne(word, AllPos(word), {"~", "/"}, FALSE),
           WordClass \cup {"-", ".", "/", "_"}, FALSE) # {}

\* regexp.MustCompile(`-{1,2}[\w\-]+`).MatchString
flagPattern(word) ==
    LET one == ReLit(word, AllPos(word), "-")
        two == ReLit(word, one, "-")
    IN  RePlus(word, one \cup two, WordClass \cup {"-"}, FALSE) # {}

\* regexp.MustCompile(`\$\{?[\w_]+\}?`).MatchString
variablePattern(word) ==
    ReOpt(word,
          RePlus(word, ReOpt(word, ReLit(word, AllPos(word), "$"), "{"),
                 WordClass, FALSE),
          "}") # {}

\* regexp.MustCompile(`^\d+$`).MatchString
numberPattern(word) ==
    (Len(word) + 1) \in RePlus(word, {1}, Digits, FALSE)

classifyWord(word, isCommand) ==
    IF urlPattern(word) THEN "URL"
    ELSE IF pathPattern(word) THEN "PATH"
    ELSE IF flagPattern(word) THEN "FLAG"
    ELSE IF variablePattern(word) THEN "VARIABLE"
    ELSE IF numberPattern(word) THEN "NUMBER"
    ELSE IF isCommand THEN "COMMAND"
    ELSE "ARGUMENT"

\* the loop of consumeWord
RECURSIVE wordLoop(_)
wordLoop(l) ==
    IF l.position < Len(l.input)
       /\ (isAlphaNumeric(l) \/ current(l) = "-" \/ current(l) = "_" \/ current(l) = ".")
    THEN wordLoop(advance(l, 1))
    ELSE l

consumeWord(l) ==
    LET start == l.position
        l1 == wordLoop(l)
        word == Slice(l1.input, start, l1.position)
        tokenType == classifyWord(word, start = 0 \/ isStartOfCommand(l1, start))
    IN  addToken(l1, tokenType, word)

\* the loop of consumeQuotedString
RECURSIVE quoteLoop(_, _)
quoteLoop(l, quote) ==
    IF l.position < Len(l.input) /\ current(l) # quote
    THEN IF current(l) = "\\" /\ l.position + 1 < Len(l.input)
         THEN quoteLoop(advance(l, 2), quote)
         ELSE quoteLoop(advance(l, 1), quote)
    ELSE l

\* consumeQuotedString leaving the position where the string began when the
\* closing quote is missing
consumeQuotedStringRewind(l) ==
    LET quote == current(l)
        start == l.position
        l1 == quoteLoop(advance(l, 1), quote)
    IN  IF l1.position >= Len(l1.input)
        THEN [addError(l1, "String sin cerrar") EXCEPT !.position = start]
        ELSE LET l2 == advance(l1, 1)
             IN  addToken(l2, "STRING", Slice(l2.input, start, l2.position))

consumeQuotedString(l) ==
    LET quote == current(l)
        start == l.position
        l1 == quoteLoop(advance(l, 1), quote)
    IN  IF l1.position >= Len(l1.input)
        THEN addError(l1, "String sin cerrar")
        ELSE LET l2 == advance(l1, 1)
             IN  addToken(l2, "STRING", Slice(l2.input, start, l2.position))

\* the loop of consumeComment
RECURSIVE commentLoop(_)
commentLoop(l) ==
    IF l.position < Len(l.input) /\ current(l) # "\n"
    THEN commentLoop(advance(l, 1))
    ELSE l

consumeComment(l) ==
    LET start == l.position
        l1 == commentLoop(l)
    IN  addToken(l1, "COMMENT", Slice(l1.input, start, l1.position))

\* the loop of consumeWhitespace
RECURSIVE whitespaceLoop(_)
whitespaceLoop(l) ==
    IF l.position < Len(l.input) /\ isWhitespace(l)
    THEN whitespaceLoop(advance(l, 1))
    ELSE l

consumeWhitespace(l) ==
    LET start == l.position
        l1 == whitespaceLoop(l)
    IN  addToken(l1, "WHITESPACE", Slice(l1.input, start, l1.position))

consumeRedirect(l) ==
    LET start == l.position
        l1 == IF current(l) = ">"
              THEN LET a == advance(l, 1)
                   IN  IF a.position < Len(a.input) /\ current(a) = ">"
                       THEN advance(a, 1) ELSE a
              ELSE IF current(l) = "<" THEN advance(l, 1)
              ELSE l
    IN  addToken(l1, "REDIRECT", Slice(l1.input, start, l1.position))

consumeOperator(l) == advance(addToken(l, "OPERATOR", current(l)), 1)

\* one call of Lexer.nextToken
nextToken(l) ==
    IF isWhitespace(l) THEN consumeWhitespace(l)
    ELSE IF current(l) = "\n"
         THEN [advance(addToken(l, "NEWLINE", "\n"), 1) EXCEPT !.line = @ + 1]
    ELSE IF current(l) = "#" THEN consumeComment(l)
    ELSE IF current(l) = "|" THEN advance(addToken(l, "PIPE", "|"), 1)
    ELSE IF isRedirect(l) THEN consumeRedirect(l)
    ELSE IF current(l) = "\"" \/ current(l) = "'" THEN consumeQuotedString(l)
    ELSE IF isAlphaNumeric(l) THEN consumeWord(l)
    ELSE IF isOperator(l) THEN consumeOperator(l)
    ELSE advance(addError(l, "Caracter no reconocido: " \o current(l)), 1)

\* Lexer.Tokenize, run to completion
RECURSIVE tokenizeLoop(_)
tokenizeLoop(l) ==
    IF l.position < Len(l.input) THEN tokenizeLoop(nextToken(l)) ELSE l

Tokenize(l) == addToken(tokenizeLoop(l), "EOF", "")

(***************************************************************************)
(* Tokenizing an input, one nextToken call per step.                       *)
(***************************************************************************)
LexAlphabet == {"a", "1", " ", "\n", "#", "|", ">", "\"", "\\", "-", ";", "/"}

RECURSIVE StringsUpTo(_, _)
StringsUpTo(alphabet, n) ==
    IF n = 0 THEN {""}
    ELSE LET shorter == StringsUpTo(alphabet, n - 1)
         IN  shorter \cup {s \o c : s \in shorter, c \in alphabet}

LexInputs == StringsUpTo(LexAlphabet, MaxInputLen)

InitLex ==
    /\ lex \in {NewLexer(input) : input \in LexInputs}
    /\ lexPc = "scan"
    /\ IdleParse /\ IdleAn /\ IdleFs /\ IdleReq /\ IdleSpell

LexStep ==
    /\ lexPc = "scan"
    /\ lex.position < Len(lex.input)
    /\ lex' = nextToken(lex)
    /\ UNCHANGED <<lexPc, parseVars, anVars, fsVars, reqVars, spellVars>>

LexFinish ==
    /\ lexPc = "scan"
    /\ lex.position >= Len(lex.input)
    /\ lex' = addToken(lex, "EOF", "")
    /\ lexPc' = "done"
    /\ UNCHANGED <<parseVars, anVars, fsVars, reqVars, spellVars>>

NextLex == LexStep \/ LexFinish

SpecLex == InitLex /\ [][NextLex]_vars

\* the concatenation of the tokens' text
RECURSIVE TokenText(_)
TokenText(tokens) ==
    IF tokens = <<>> THEN "" ELSE Head(tokens).Value \o TokenText(Tail(tokens))

EOFCount(tokens) == Cardinality({i \in DOMAIN tokens : tokens[i].Type = "EOF"})

\* C1: when Tokenize has returned, the concatenation of the text of all its
\* tokens, in order, is the input (every input character is covered by a token).
C1_RoundTrip == lexPc = "done" => TokenText(lex.tokens) = lex.input

\* C2: Tokenize terminates and ends with the only EndOfInput token: while
\* scanning some step is possible, every nextToken call moves the position
\* forward by at least one character and never past the end of the input, and
\* the step that returns leaves exactly one EOF token, the last of the list.
C2_TokenizeTerminates ==
    /\ [](lexPc = "scan" => ENABLED NextLex)
    /\ [][/\ lexPc' = "scan" =>
                /\ lex'.position > lex.position
                /\ lex'.position <= Len(lex.input)
          /\ lexPc' = "done" =>
                /\ lex'.tokens # <<>>
                /\ lex'.tokens[Len(lex'.tokens)].Type = "EOF"
                /\ EOFCount(lex'.tokens) = 1]_vars

\* Tokenize has returned for an input with an unterminated string after
\* other tokens
C2_Witness ==
    /\ lexPc = "done"
    /\ Len(lex.tokens) >= 2
    /\ \E i \in DOMAIN lex.errors : lex.errors[i].Message = "String sin cerrar"

(***************************************************************************)
(* Parser (package parser).                                                *)
(***************************************************************************)
NoFlags == [name \in {} |-> ""]

\* the zero value of a map lookup: "" when the key is absent
FlagValue(cmd, name) ==
    IF name \in DOMAIN cmd.Flags THEN cmd.Flags[name] ELSE ""

SetFlag(cmd, name, value) ==
    [cmd EXCEPT !.Flags = [n \in (DOMAIN cmd.Flags) \cup {name} |->
                              IF n = name THEN value ELSE cmd.Flags[n]]]

NewCommandAST(command, line, raw) ==
    [Command |-> command, Arguments |-> <<>>, Flags |-> NoFlags, Pipes |-> <<>>,
     Redirects |-> <<>>, Line |-> line, Raw |-> raw]

\* filterTokens: drop whitespace and comments
RECURSIVE filterTokens(_)
filterTokens(tokens) ==
    IF tokens = <<>> THEN <<>>
    ELSE IF Head(tokens).Type # "WHITESPACE" /\ Head(tokens).Type # "COMMENT"
         THEN <<Head(tokens)>> \o filterTokens(Tail(tokens))
         ELSE filterTokens(Tail(tokens))

NewParser(tokens) ==
    [tokens |-> filterTokens(tokens), position |-> 0, commands |-> <<>>,
     errors |-> <<>>, warnings |-> <<>>]

\* Parser.current: the token at the position, an EOF token past the end
parserCurrent(p) ==
    IF p.position >= Len(p.tokens)
    THEN [Type |-> "EOF", Value |-> "", Position |-> 0, Line |-> 0]
    ELSE p.tokens[p.position + 1]

parserAddError(p, message, line, command) ==
    [p EXCEPT !.errors = Append(@, [Message |-> message, Line |-> line,
                                    Command |-> command])]

parserAddWarning(p, message) == [p EXCEPT !.warnings = Append(@, message)]

\* strings.TrimLeft(s, "-")
RECURSIVE TrimLeftDash(_)
TrimLeftDash(s) ==
    IF Len(s) > 0 /\ SubSeq(s, 1, 1) = "-" THEN TrimLeftDash(SubSeq(s, 2, Len(s))) ELSE s

\* strings.Join(parts, sep)
RECURSIVE Join(_, _)
Join(parts, sep) ==
    IF parts = <<>> THEN ""
    ELSE IF Len(parts) = 1 THEN parts[1]
    ELSE parts[1] \o sep \o Join(Tail(parts), sep)

\* the collecting loop of parseCommand: the tokens of one statement; st is
\* [p, tokens]
RECURSIVE collectStatement(_)
collectStatement(st) ==
    IF st.p.position < Len(st.p.tokens)
    THEN LET token == parserCurrent(st.p)
         IN  IF token.Type = "NEWLINE" \/ token.Type = "EOF" THEN st
             ELSE IF token.Type = "OPERATOR" /\ token.Value = ";"
                  THEN [st EXCEPT !.p.position = @ + 1]
             ELSE collectStatement([p |-> [st.p EXCEPT !.position = @ + 1],
                                    tokens |-> Append(st.tokens, token)])
    ELSE st

\* parseFlag; st is [p, cmd, i], i the 1-based index of the flag token
parseFlag(st, tokens) ==
    LET flagName == TrimLeftDash(tokens[st.i].Value)
    IN  IF st.i + 1 <= Len(tokens)
        THEN LET nextTok == tokens[st.i + 1]
             IN  IF nextTok.Type \in {"ARGUMENT", "STRING", "NUMBER", "PATH"}
                 THEN [st EXCEPT !.cmd = SetFlag(@, flagName, nextTok.Value),
                                 !.i = @ + 1]
                 ELSE [st EXCEPT !.cmd = SetFlag(@, flagName, "true")]
        ELSE [st EXCEPT !.cmd = SetFlag(@, flagName, "true")]

\* parseRedirect; st is [p, cmd, i], i the 1-based index of the redirect token
parseRedirect(st, tokens) ==
    IF st.i + 1 <= Len(tokens)
    THEN [st EXCEPT !.cmd.Redirects = Append(@, [Type |-> tokens[st.i].Value,
                                                 Target |-> tokens[st.i + 1].Value]),
                    !.i = @ + 1]
    ELSE [st EXCEPT !.p = parserAddError(@, "Redireccion sin target",
                                         st.cmd.Line, st.cmd.Raw)]

\* the argument loop of parseCommand (simple = FALSE) and of
\* parseSimpleCommand (simple = TRUE), from token index st.i on
RECURSIVE argumentLoop(_, _, _)
argumentLoop(st, tokens, simple) ==
    IF st.i > Len(tokens) THEN st
    ELSE LET token == tokens[st.i]
             st1 == IF token.Type = "FLAG" THEN parseFlag(st, tokens)
                    ELSE IF token.Type = "REDIRECT" THEN parseRedirect(st, tokens)
                    ELSE IF token.Type \in {"ARGUMENT", "PATH", "URL", "STRING", "NUMBER"}
                         THEN [st EXCEPT !.cmd.Arguments = Append(@, token.Value)]
                    ELSE IF token.Type = "VARIABLE"
                         THEN IF simple
                              THEN [st EXCEPT !.cmd.Arguments = Append(@, token.Value)]
                              ELSE [st EXCEPT !.cmd.Arguments = Append(@, token.Value),
                                              !.p = parserAddWarning(@,
                                                  "Variable detectada: " \o token.Value)]
                    ELSE IF simple THEN st
                    ELSE [st EXCEPT !.p = parserAddWarning(@,
                                              "Token inesperado: " \o token.Value)]
         IN  argumentLoop([st1 EXCEPT !.i = @ + 1], tokens, simple)

\* parseSimpleCommand taking the first token of the segment as the command
\* whatever its type
parseSimpleCommandAnyFirst(p, tokens, line) ==
    IF Len(tokens) = 0
    THEN [p |-> p, cmds |-> <<>>]
    ELSE LET st == argumentLoop([p |-> p,
                                 cmd |-> NewCommandAST(
                                             IF tokens[1].Type = "COMMAND"
                                             THEN tokens[1].Value ELSE "",
                                             line, ""),
                                 i |-> 2], tokens, TRUE)
         IN  [p |-> st.p, cmds |-> <<st.cmd>>]

\* parseSimpleCommand: [p, cmds], cmds holding the node or nothing (nil)
parseSimpleCommand(p, tokens, line) ==
    IF Len(tokens) = 0 \/ tokens[1].Type # "COMMAND"
    THEN [p |-> p, cmds |-> <<>>]
    ELSE LET st == argumentLoop([p |-> p,
                                 cmd |-> NewCommandAST(tokens[1].Value, line, ""),
                                 i |-> 2], tokens, TRUE)
         IN  [p |-> st.p, cmds |-> <<st.cmd>>]

\* the splitting loop of parsePipedCommand; acc is [groups, currentGroup]
RECURSIVE splitAtPipes(_, _)
splitAtPipes(tokens, acc) ==
    IF tokens = <<>>
    THEN IF Len(acc.currentGroup) > 0
         THEN Append(acc.groups, acc.currentGroup) ELSE acc.groups
    ELSE IF Head(tokens).Type = "PIPE"
         THEN IF Len(acc.currentGroup) > 0
              THEN splitAtPipes(Tail(tokens),
                       [groups |-> Append(acc.groups, acc.currentGroup),
                        currentGroup |-> <<>>])
              ELSE splitAtPipes(Tail(tokens), acc)
         ELSE splitAtPipes(Tail(tokens),
                  [acc EXCEPT !.currentGroup = Append(@, Head(tokens))])

\* the loop of parsePipedCommand over the groups after the first; st is [p, cmd]
RECURSIVE pipeLoop(_, _, _, _)
pipeLoop(st, groups, i, line) ==
    IF i > Len(groups) THEN st
    ELSE LET r == parseSimpleCommand(st.p, groups[i], line)
         IN  pipeLoop([p |-> r.p,
                       cmd |-> [st.cmd EXCEPT !.Pipes = @ \o r.cmds]],
                      groups, i + 1, line)

parsePipedCommand(p, tokens, startLine, raw) ==
    LET commandGroups == splitAtPipes(tokens, [groups |-> <<>>, currentGroup |-> <<>>])
    IN  IF Len(commandGroups) = 0 THEN [p |-> p, cmds |-> <<>>]
        ELSE LET main == parseSimpleCommand(p, commandGroups[1], startLine)
             IN  IF main.cmds = <<>> THEN main
                 ELSE LET st == pipeLoop([p |-> main.p,
                                          cmd |-> [main.cmds[1] EXCEPT !.Raw = raw]],
                                         commandGroups, 2, startLine)
                      IN  [p |-> st.p, cmds |-> <<st.cmd>>]

hasPipes(tokens) == \E i \in DOMAIN tokens : tokens[i].Type = "PIPE"

\* parseCommand: [p, cmds], cmds holding the node or nothing (nil)
parseCommand(p) ==
    IF p.position >= Len(p.tokens) THEN [p |-> p, cmds |-> <<>>]
    ELSE LET startLine == parserCurrent(p).Line
             st == collectStatement([p |-> p, tokens |-> <<>>])
             tokens == st.tokens
             raw == Join([i \in DOMAIN tokens |-> tokens[i].Value], " ")
         IN  IF Len(tokens) = 0 THEN [p |-> st.p, cmds |-> <<>>]
             ELSE IF tokens[1].Type # "COMMAND"
                  THEN [p |-> parserAddError(st.p, "Se esperaba un comando",
                                             startLine, raw),
                        cmds |-> <<>>]
             ELSE IF hasPipes(tokens)
                  THEN parsePipedCommand(st.p, tokens, startLine, raw)
             ELSE LET a == argumentLoop([p |-> st.p,
                                         cmd |-> NewCommandAST(tokens[1].Value,
                                                               startLine, raw),
                                         i |-> 2], tokens, FALSE)
                  IN  [p |-> a.p, cmds |-> <<a.cmd>>]

\* one iteration of the loop of Parse
parseStep(p) ==
    IF parserCurrent(p).Type = "NEWLINE" \/ parserCurrent(p).Type = "EOF"
    THEN [p EXCEPT !.position = @ + 1]
    ELSE LET r == parseCommand(p)
         IN  [r.p EXCEPT !.commands = @ \o r.cmds]

\* Parser.Parse, run to completion
RECURSIVE Parse(_)
Parse(p) == IF p.position < Len(p.tokens) THEN Parse(parseStep(p)) ELSE p

(***************************************************************************)
(* path/filepath.                                                          *)
(***************************************************************************)
\* the components of a path between its separators; acc is [parts, cur]
RECURSIVE splitPath(_, _)
splitPath(path, acc) ==
    IF path = "" THEN Append(acc.parts, acc.cur)
    ELSE IF Head(path) = "/"
         THEN splitPath(Tail(path), [parts |-> Append(acc.parts, acc.cur), cur |-> ""])
         ELSE splitPath(Tail(path), [acc EXCEPT !.cur = @ \o Head(path)])

\* the element loop of filepath.Clean: empty and "." elements are dropped,
\* ".." removes the element before it (at the root it is dropped)
RECURSIVE cleanLoop(_, _, _)
cleanLoop(parts, out, rooted) ==
    IF parts = <<>> THEN out
    ELSE LET part == Head(parts)
         IN  IF part = "" \/ part = "." THEN cleanLoop(Tail(parts), out, rooted)
             ELSE IF part = ".."
                  THEN IF Len(out) > 0 /\ out[Len(out)] # ".."
                       THEN cleanLoop(Tail(parts), SubSeq(out, 1, Len(out) - 1), rooted)
                       ELSE IF rooted THEN cleanLoop(Tail(parts), out, rooted)
                       ELSE cleanLoop(Tail(parts), Append(out, ".."), rooted)
             ELSE cleanLoop(Tail(parts), Append(out, part), rooted)

\* filepath.Clean
Clean(path) ==
    IF path = "" THEN "."
    ELSE LET rooted == HasPrefix(path, "/")
             out == cleanLoop(splitPath(path, [parts |-> <<>>, cur |-> ""]), <<>>, rooted)
             joined == (IF rooted THEN "/" ELSE "") \o Join(out, "/")
         IN  IF joined = "" THEN "." ELSE joined

\* the index of the last separator of the path (0: none)
RECURSIVE lastSeparator(_, _)
lastSeparator(path, i) ==
    IF i >= 1 /\ SubSeq(path, i, i) # "/" THEN lastSeparator(path, i - 1) ELSE i

\* filepath.Dir
Dir(path) == Clean(SubSeq(path, 1, lastSeparator(path, Len(path))))

(***************************************************************************)
(* FileSystemState (package semantic).                                     *)
(***************************************************************************)
defaultDirs ==
    {"/", "/home", "/home/user", "/tmp", "/var", "/usr", "/bin", "/etc",
     "/home/user/Documents", "/home/user/Downloads", "/home/user/Desktop",
     "/home/user/Pictures", "/home/user/Music", "/home/user/Videos",
     ".", "..", "~"}

NewFileSystemState ==
    [currentDirectory |-> "/home/user", directories |-> defaultDirs,
     files |-> {}, initialDirs |-> defaultDirs]

NoDependency == [Type |-> "", Name |-> "", Required |-> ""]

FileSystemError(type, cmd, path, description, suggestion, dependency) ==
    [Type |-> type, Command |-> cmd.Raw, Line |-> cmd.Line, Path |-> path,
     Description |-> description, Suggestion |-> suggestion,
     MissingDependency |-> dependency]

withError(st, err) == [st EXCEPT !.errors = Append(@, err)]

\* resolvePath joining a relative path to the current directory without
\* cleaning the result
resolvePathUncleaned(fs, path) ==
    IF HasPrefix(path, "/") THEN Clean(path)
    ELSE IF path = "~" THEN "/home/user"
    ELSE IF HasPrefix(path, "~/") THEN Clean("/home/user/" \o SubSeq(path, 3, Len(path)))
    ELSE IF path = "." THEN fs.currentDirectory
    ELSE IF path = ".." THEN Dir(fs.currentDirectory)
    ELSE fs.currentDirectory \o "/" \o path

resolvePath(fs, path) ==
    IF HasPrefix(path, "/") THEN Clean(path)
    ELSE IF path = "~" THEN "/home/user"
    ELSE IF HasPrefix(path, "~/") THEN Clean("/home/user/" \o SubSeq(path, 3, Len(path)))
    ELSE IF path = "." THEN fs.currentDirectory
    ELSE IF path = ".." THEN Dir(fs.currentDirectory)
    ELSE Clean(fs.currentDirectory \o "/" \o path)

\* Each process* operator takes and returns st = [fs, errors]: the state and
\* the errors the call has collected.

\* a processMkdir loop that records the argument as typed, not its resolved path
RECURSIVE mkdirLoopRawPath(_, _, _)
mkdirLoopRawPath(st, cmd, i) ==
    IF i > Len(cmd.Arguments) THEN st
    ELSE LET arg == cmd.Arguments[i]
         IN  mkdirLoopRawPath([st EXCEPT !.fs.directories = @ \cup {arg}], cmd, i + 1)

\* the loop of processMkdir over cmd.Arguments[i..]
RECURSIVE mkdirLoop(_, _, _)
mkdirLoop(st, cmd, i) ==
    IF i > Len(cmd.Arguments) THEN st
    ELSE LET arg == cmd.Arguments[i]
             absolutePath == resolvePath(st.fs, arg)
         IN  IF absolutePath \in st.fs.directories
             THEN mkdirLoop(withError(st, FileSystemError("directory_exists", cmd,
                                absolutePath,
                                "El directorio '" \o arg \o "' ya existe",
                                "Use un nombre diferente o verifique si realmente necesita crear este directorio",
                                NoDependency)),
                            cmd, i + 1)
             ELSE mkdirLoop([st EXCEPT !.fs.directories = @ \cup {absolutePath}],
                            cmd, i + 1)

processMkdir(st, cmd) ==
    IF Len(cmd.Arguments) = 0
    THEN withError(st, FileSystemError("missing_argument", cmd, "",
                       "mkdir requiere al menos un nombre de directorio",
                       "Especifique el nombre del directorio a crear: mkdir nombre_directorio",
                       NoDependency))
    ELSE mkdirLoop(st, cmd, 1)

\* processCD changing the current directory before it tests whether the
\* target is a known directory
processCDUnchecked(st, cmd) ==
    LET targetDir == IF Len(cmd.Arguments) = 0 THEN "/home/user" ELSE cmd.Arguments[1]
        absolutePath == resolvePath(st.fs, targetDir)
        moved == [st EXCEPT !.fs.currentDirectory = absolutePath]
    IN  IF absolutePath \notin st.fs.directories
        THEN withError(moved, FileSystemError("directory_not_found", cmd, absolutePath,
                           "No se puede cambiar al directorio '" \o targetDir
                               \o "': directorio no encontrado",
                           "Primero cree el directorio con: mkdir " \o targetDir,
                           [Type |-> "directory", Name |-> targetDir,
                            Required |-> "mkdir " \o targetDir]))
        ELSE moved

processCD(st, cmd) ==
    LET targetDir == IF Len(cmd.Arguments) = 0 THEN "/home/user" ELSE cmd.Arguments[1]
        absolutePath == resolvePath(st.fs, targetDir)
    IN  IF absolutePath \notin st.fs.directories
        THEN withError(st, FileSystemError("directory_not_found", cmd, absolutePath,
                           "No se puede cambiar al directorio '" \o targetDir
                               \o "': directorio no encontrado",
                           "Primero cree el directorio con: mkdir " \o targetDir,
                           [Type |-> "directory", Name |-> targetDir,
                            Required |-> "mkdir " \o targetDir]))
        ELSE [st EXCEPT !.fs.currentDirectory = absolutePath]

\* the loop of processRmdir over cmd.Arguments[i..]
RECURSIVE rmdirLoop(_, _, _)
rmdirLoop(st, cmd, i) ==
    IF i > Len(cmd.Arguments) THEN st
    ELSE LET arg == cmd.Arguments[i]
             absolutePath == resolvePath(st.fs, arg)
         IN  IF absolutePath \notin st.fs.directories
             THEN rmdirLoop(withError(st, FileSystemError("directory_not_found", cmd,
                                absolutePath,
                                "No se puede eliminar el directorio '" \o arg
                                    \o "': directorio no encontrado",
                                "Verifique que el directorio exista antes de intentar eliminarlo",
                                NoDependency)),
                            cmd, i + 1)
             ELSE IF absolutePath \in st.fs.initialDirs
             THEN rmdirLoop(withError(st, FileSystemError("system_directory", cmd,
                                absolutePath,
                                "Intento de eliminar directorio del sistema: " \o arg,
                                "Evite eliminar directorios criticos del sistema",
                                NoDependency)),
                            cmd, i + 1)
             ELSE rmdirLoop([st EXCEPT !.fs.directories = @ \ {absolutePath}],
                            cmd, i + 1)

processRmdir(st, cmd) ==
    IF Len(cmd.Arguments) = 0
    THEN withError(st, FileSystemError("missing_argument", cmd, "",
                       "rmdir requiere al menos un nombre de directorio",
                       "Especifique el nombre del directorio a eliminar: rmdir nombre_directorio",
                       NoDependency))
    ELSE rmdirLoop(st, cmd, 1)

\* the loop of processTouch over cmd.Arguments[i..]
RECURSIVE touchLoop(_, _, _)
touchLoop(st, cmd, i) ==
    IF i > Len(cmd.Arguments) THEN st
    ELSE LET arg == cmd.Arguments[i]
             absolutePath == resolvePath(st.fs, arg)
             parentDir == Dir(absolutePath)
         IN  IF parentDir \notin st.fs.directories
             THEN touchLoop(withError(st, FileSystemError("parent_directory_not_found",
                                cmd, parentDir,
                                "No se puede crear el archivo '" \o arg
                                    \o "': el directorio padre no existe",
                                "Primero cree el directorio padre con: mkdir " \o Dir(arg),
                                [Type |-> "directory", Name |-> Dir(arg),
                                 Required |-> "mkdir " \o Dir(arg)])),
                            cmd, i + 1)
             ELSE touchLoop([st EXCEPT !.fs.files = @ \cup {absolutePath}], cmd, i + 1)

processTouch(st, cmd) ==
    IF Len(cmd.Arguments) = 0
    THEN withError(st, FileSystemError("missing_argument", cmd, "",
                       "touch requiere al menos un nombre de archivo",
                       "Especifique el nombre del archivo: touch nombre_archivo",
                       NoDependency))
    ELSE touchLoop(st, cmd, 1)

\* the loop of processRm over cmd.Arguments[i..]
RECURSIVE rmLoop(_, _, _, _)
rmLoop(st, cmd, isRecursive, i) ==
    IF i > Len(cmd.Arguments) THEN st
    ELSE LET arg == cmd.Arguments[i]
             absolutePath == resolvePath(st.fs, arg)
             isDir == absolutePath \in st.fs.directories
             isFile == absolutePath \in st.fs.files
         IN  IF isDir /\ ~isRecursive
             THEN rmLoop(withError(st, FileSystemError("directory_without_recursive",
                             cmd, absolutePath,
                             "No se puede eliminar '" \o arg \o "': es un directorio",
                             "Use rm -r para eliminar directorios o rmdir para directorios vacios",
                             NoDependency)),
                         cmd, isRecursive, i + 1)
             ELSE IF ~isFile /\ ~isDir
             THEN rmLoop(withError(st, FileSystemError("file_not_found", cmd,
                             absolutePath,
                             "No se puede eliminar '" \o arg
                                 \o "': archivo o directorio no encontrado",
                             "Verifique que el archivo exista antes de intentar eliminarlo",
                             NoDependency)),
                         cmd, isRecursive, i + 1)
             ELSE rmLoop([st EXCEPT
                             !.fs.files = IF isFile THEN @ \ {absolutePath} ELSE @,
                             !.fs.directories =
                                 IF isDir /\ isRecursive THEN @ \ {absolutePath} ELSE @],
                         cmd, isRecursive, i + 1)

processRm(st, cmd) ==
    IF Len(cmd.Arguments) = 0
    THEN withError(st, FileSystemError("missing_argument", cmd, "",
                       "rm requiere al menos un nombre de archivo",
                       "Especifique el archivo a eliminar: rm nombre_archivo",
                       NoDependency))
    ELSE rmLoop(st, cmd,
                FlagValue(cmd, "r") # "" \/ FlagValue(cmd, "rf") # ""
                    \/ FlagValue(cmd, "R") # "",
                1)

\* processCp recording the destination whatever the source is
processCpAnySource(st, cmd) ==
    IF Len(cmd.Arguments) < 2
    THEN withError(st, FileSystemError("missing_argument", cmd, "",
                       "cp requiere origen y destino",
                       "Use: cp archivo_origen archivo_destino", NoDependency))
    ELSE LET sourceAbsolute == resolvePath(st.fs, cmd.Arguments[1])
             destAbsolute == resolvePath(st.fs, cmd.Arguments[2])
         IN  IF sourceAbsolute \notin st.fs.files /\ sourceAbsolute \notin st.fs.directories
             THEN withError(st, FileSystemError("file_not_found", cmd, sourceAbsolute,
                                "", "", NoDependency))
             ELSE IF Dir(destAbsolute) \notin st.fs.directories
             THEN withError(st, FileSystemError("parent_directory_not_found", cmd,
                                Dir(destAbsolute), "", "", NoDependency))
             ELSE [st EXCEPT !.fs.files = @ \cup {destAbsolute}]

processCp(st, cmd) ==
    IF Len(cmd.Arguments) < 2
    THEN withError(st, FileSystemError("missing_argument", cmd, "",
                       "cp requiere origen y destino",
                       "Use: cp archivo_origen archivo_destino", NoDependency))
    ELSE LET source == cmd.Arguments[1]
             dest == cmd.Arguments[2]
             sourceAbsolute == resolvePath(st.fs, source)
             destAbsolute == resolvePath(st.fs, dest)
             destDir == Dir(destAbsolute)
         IN  IF sourceAbsolute \notin st.fs.files /\ sourceAbsolute \notin st.fs.directories
             THEN withError(st, FileSystemError("file_not_found", cmd, sourceAbsolute,
                                "No se puede copiar '" \o source \o "': archivo no encontrado",
                                "Verifique que el archivo origen exista",
                                [Type |-> "file", Name |-> source,
                                 Required |-> "touch " \o source]))
             ELSE IF destDir \notin st.fs.directories
             THEN withError(st, FileSystemError("parent_directory_not_found", cmd, destDir,
                                "No se puede copiar a '" \o dest
                                    \o "': el directorio padre no existe",
                                "Primero cree el directorio: mkdir " \o Dir(dest),
                                [Type |-> "directory", Name |-> Dir(dest),
                                 Required |-> "mkdir " \o Dir(dest)]))
             ELSE IF sourceAbsolute \in st.fs.files
             THEN [st EXCEPT !.fs.files = @ \cup {destAbsolute}]
             ELSE st

processMv(st, cmd) ==
    IF Len(cmd.Arguments) < 2
    THEN withError(st, FileSystemError("missing_argument", cmd, "",
                       "mv requiere origen y destino",
                       "Use: mv archivo_origen archivo_destino", NoDependency))
    ELSE LET source == cmd.Arguments[1]
             dest == cmd.Arguments[2]
             sourceAbsolute == resolvePath(st.fs, source)
             destAbsolute == resolvePath(st.fs, dest)
             destDir == Dir(destAbsolute)
             isFile == sourceAbsolute \in st.fs.files
             isDir == sourceAbsolute \in st.fs.directories
         IN  IF ~isFile /\ ~isDir
             THEN withError(st, FileSystemError("file_not_found", cmd, sourceAbsolute,
                                "No se puede mover '" \o source \o "': archivo no encontrado",
                                "Verifique que el archivo origen exista",
                                [Type |-> "file", Name |-> source,
                                 Required |-> "touch " \o source]))
             ELSE IF destDir \notin st.fs.directories
             THEN withError(st, FileSystemError("parent_directory_not_found", cmd, destDir,
                                "No se puede mover a '" \o dest
                                    \o "': el directorio padre no existe",
                                "Primero cree el directorio: mkdir " \o Dir(dest),
                                [Type |-> "directory", Name |-> Dir(dest),
                                 Required |-> "mkdir " \o Dir(dest)]))
             ELSE [st EXCEPT
                      !.fs.files =
                          IF isFile THEN (@ \ {sourceAbsolute}) \cup {destAbsolute} ELSE @,
                      !.fs.directories =
                          IF isDir THEN (@ \ {sourceAbsolute}) \cup {destAbsolute} ELSE @]

\* the loop of processFileRead over cmd.Arguments[i..]
RECURSIVE fileReadLoop(_, _, _)
fileReadLoop(st, cmd, i) ==
    IF i > Len(cmd.Arguments) THEN st
    ELSE LET arg == cmd.Arguments[i]
             absolutePath == resolvePath(st.fs, arg)
         IN  IF HasPrefix(arg, "-") THEN fileReadLoop(st, cmd, i + 1)
             ELSE IF absolutePath \notin st.fs.files
                     /\ absolutePath \notin st.fs.directories
             THEN fileReadLoop(withError(st, FileSystemError("file_not_found", cmd,
                                   absolutePath,
                                   "No se puede leer '" \o arg \o "': archivo no encontrado",
                                   "Verifique que el archivo exista o creelo con: touch "
                                       \o arg,
                                   [Type |-> "file", Name |-> arg,
                                    Required |-> "touch " \o arg])),
                               cmd, i + 1)
             ELSE fileReadLoop(st, cmd, i + 1)

processFileRead(st, cmd) ==
    IF Len(cmd.Arguments) = 0 THEN st ELSE fileReadLoop(st, cmd, 1)

ReadCommands == {"cat", "less", "more", "head", "tail", "grep"}

\* ProcessCommand replaying the first command of the pipeline as well
ProcessCommandWithPipes(fs, cmd) ==
    LET switch(st, c) ==
            IF c.Command = "mkdir" THEN processMkdir(st, c)
            ELSE IF c.Command = "cd" THEN processCD(st, c)
            ELSE IF c.Command = "rmdir" THEN processRmdir(st, c)
            ELSE IF c.Command = "touch" THEN processTouch(st, c)
            ELSE IF c.Command = "rm" THEN processRm(st, c)
            ELSE IF c.Command = "cp" THEN processCp(st, c)
            ELSE IF c.Command = "mv" THEN processMv(st, c)
            ELSE IF c.Command \in ReadCommands THEN processFileRead(st, c)
            ELSE st
        st == switch([fs |-> fs, errors |-> <<>>], cmd)
    IN  IF cmd.Pipes = <<>> THEN st ELSE switch(st, cmd.Pipes[1])

\* FileSystemState.ProcessCommand: [fs, errors], the state after the command
\* and the errors it returns
ProcessCommand(fs, cmd) ==
    LET st == [fs |-> fs, errors |-> <<>>]
    IN  IF cmd.Command = "mkdir" THEN processMkdir(st, cmd)
        ELSE IF cmd.Command = "cd" THEN processCD(st, cmd)
        ELSE IF cmd.Command = "rmdir" THEN processRmdir(st, cmd)
        ELSE IF cmd.Command = "touch" THEN processTouch(st, cmd)
        ELSE IF cmd.Command = "rm" THEN processRm(st, cmd)
        ELSE IF cmd.Command = "cp" THEN processCp(st, cmd)
        ELSE IF cmd.Command = "mv" THEN processMv(st, cmd)
        ELSE IF cmd.Command \in ReadCommands THEN processFileRead(st, cmd)
        ELSE st

(***************************************************************************)
(* Analyzer (package semantic).                                            *)
(***************************************************************************)
NewAnalyzer ==
    [threats |-> <<>>, patterns |-> <<>>, anomalies |-> <<>>,
     filesystemState |-> NewFileSystemState, fsErrors |-> <<>>]

\* The tables are Go maps from a regular expression to a description.
criticalPatterns ==
    ("rm\\s+-rf\\s+/" :> "Eliminacion recursiva del sistema de archivos raiz")
    @@ ("dd\\s+if=.*of=/dev/sd" :> "Sobrescritura directa de disco")
    @@ ("mkfs" :> "Formateo de sistema de archivos")
    @@ ("fdisk.*-l" :> "Manipulacion de particiones")
    @@ ("chmod\\s+777\\s+/" :> "Permisos peligrosos en directorio raiz")

privilegePatterns ==
    ("sudo\\s+su\\s*-" :> "Cambio a usuario root")
    @@ ("sudo\\s+-s" :> "Shell con privilegios elevados")
    @@ ("sudo\\s+passwd" :> "Cambio de contrasena con sudo")
    @@ ("su\\s+root" :> "Cambio directo a root")

networkPatterns ==
    ("wget.*http://[^/]*[0-9]+\\.[0-9]+\\.[0-9]+\\.[0-9]+" :> "Descarga desde IP directa")
    @@ ("curl.*http://[^/]*[0-9]+\\.[0-9]+\\.[0-9]+\\.[0-9]+" :> "Descarga con curl desde IP")
    @@ ("ssh.*[0-9]+\\.[0-9]+\\.[0-9]+\\.[0-9]+" :> "Conexion SSH a IP directa")
    @@ ("nc\\s+.*[0-9]+\\.[0-9]+\\.[0-9]+\\.[0-9]+" :> "Netcat a IP directa")

suspiciousDomains ==
    <<"pastebin.com", "hastebin.com", "ix.io", "0x0.st", "temp.sh", "transfer.sh", "file.io">>

dangerousExtensions == <<".sh", ".py", ".pl", ".exe", ".bat", ".cmd", ".scr">>

\* `\s+` and `\s*`
ReSpaces(s, P) == RePlus(s, P, SpaceClass, FALSE)
ReOptSpaces(s, P) == ReStar(s, P, SpaceClass, FALSE)

\* `[0-9]+\.[0-9]+\.[0-9]+\.[0-9]+`
ReDottedQuad(s, P) ==
    LET n1 == RePlus(s, P, Digits, FALSE)
        n2 == RePlus(s, ReLit(s, n1, "."), Digits, FALSE)
        n3 == RePlus(s, ReLit(s, n2, "."), Digits, FALSE)
    IN  RePlus(s, ReLit(s, n3, "."), Digits, FALSE)

\* `<tool>.*http://[^/]*` followed by a dotted quad
ReDownloadFromIP(s, tool) ==
    ReDottedQuad(s, ReStar(s, ReLit(s, ReDotStar(s, ReLit(s, AllPos(s), tool)), "http://"),
                           {"/"}, TRUE))

\* regexp.MatchString(pattern, s) for the patterns of the tables and of
\* checkNetworkActivity
MatchString(pattern, s) ==
    CASE pattern = "rm\\s+-rf\\s+/" ->
            ReLit(s, ReSpaces(s, ReLit(s, ReSpaces(s, ReLit(s, AllPos(s), "rm")), "-rf")), "/") # {}
      [] pattern = "dd\\s+if=.*of=/dev/sd" ->
            ReLit(s, ReDotStar(s, ReLit(s, ReSpaces(s, ReLit(s, AllPos(s), "dd")), "if=")),
                  "of=/dev/sd") # {}
      [] pattern = "mkfs" -> ReLit(s, AllPos(s), "mkfs") # {}
      [] pattern = "fdisk.*-l" ->
            ReLit(s, ReDotStar(s, ReLit(s, AllPos(s), "fdisk")), "-l") # {}
      [] pattern = "chmod\\s+777\\s+/" ->
            ReLit(s, ReSpaces(s, ReLit(s, ReSpaces(s, ReLit(s, AllPos(s), "chmod")), "777")), "/") # {}
      [] pattern = "sudo\\s+su\\s*-" ->
            ReLit(s, ReOptSpaces(s, ReLit(s, ReSpaces(s, ReLit(s, AllPos(s), "sudo")), "su")), "-") # {}
      [] pattern = "sudo\\s+-s" ->
            ReLit(s, ReSpaces(s, ReLit(s, AllPos(s), "sudo")), "-s") # {}
      [] pattern = "sudo\\s+passwd" ->
            ReLit(s, ReSpaces(s, ReLit(s, AllPos(s), "sudo")), "passwd") # {}
      [] pattern = "su\\s+root" ->
            ReLit(s, ReSpaces(s, ReLit(s, AllPos(s), "su")), "root") # {}
      [] pattern = "wget.*http://[^/]*[0-9]+\\.[0-9]+\\.[0-9]+\\.[0-9]+" ->
            ReDownloadFromIP(s, "wget") # {}
      [] pattern = "curl.*http://[^/]*[0-9]+\\.[0-9]+\\.[0-9]+\\.[0-9]+" ->
            ReDownloadFromIP(s, "curl") # {}
      [] pattern = "ssh.*[0-9]+\\.[0-9]+\\.[0-9]+\\.[0-9]+" ->
            ReDottedQuad(s, ReDotStar(s, ReLit(s, AllPos(s), "ssh"))) # {}
      [] pattern = "nc\\s+.*[0-9]+\\.[0-9]+\\.[0-9]+\\.[0-9]+" ->
            ReDottedQuad(s, ReDotStar(s, ReSpaces(s, ReLit(s, AllPos(s), "nc")))) # {}
      [] pattern = "192\\.168\\.|10\\.|172\\." ->
            (ReLit(s, AllPos(s), "192.168.") \cup ReLit(s, AllPos(s), "10.")
                \cup ReLit(s, AllPos(s), "172.")) # {}

\* strings.ToLower
UpperCase == <<"A","B","C","D","E","F","G","H","I","J","K","L","M","N","O","P","Q","R",
               "S","T","U","V","W","X","Y","Z">>
LowerCase == <<"a","b","c","d","e","f","g","h","i","j","k","l","m","n","o","p","q","r",
               "s","t","u","v","w","x","y","z">>

RECURSIVE ToLower(_)
ToLower(s) ==
    IF Len(s) = 0 THEN ""
    ELSE LET c == SubSeq(s, 1, 1)
             lc == IF \E i \in DOMAIN UpperCase : UpperCase[i] = c
                   THEN LowerCase[CHOOSE i \in DOMAIN UpperCase : UpperCase[i] = c]
                   ELSE c
         IN  lc \o ToLower(SubSeq(s, 2, Len(s)))

hasFlag(cmd, flag) == flag \in DOMAIN cmd.Flags

contains(slice, item) == \E i \in DOMAIN slice : slice[i] = item

generateSuggestions(threatType, cmd) ==
    CASE threatType = "critical_command" ->
            <<"Evite usar comandos destructivos en el sistema raiz",
              "Use comandos mas especificos y menos peligrosos",
              "Verifique dos veces antes de ejecutar comandos criticos">>
      [] threatType = "privilege_escalation" ->
            <<"Use sudo solo cuando sea absolutamente necesario",
              "Prefiera comandos especificos en lugar de shells elevados",
              "Considere usar herramientas especificas en lugar de acceso root">>
      [] threatType = "suspicious_download" ->
            <<"Verifique la fuente antes de descargar archivos",
              "Use dominios oficiales y repositorios confiables",
              "Escanee archivos descargados antes de ejecutarlos">>
      [] threatType = "filesystem_error" ->
            <<"Verifique que los directorios y archivos existan antes de usarlos",
              "Cree las dependencias necesarias en el orden correcto",
              "Use comandos como 'ls' para verificar la existencia de archivos">>
      [] OTHER ->
            <<"Revise el comando para asegurar que es seguro",
              "Considere alternativas mas seguras">>

\* The checks of analyzeCommand only append to a.threats; each is modelled by
\* the threats it appends, in order.

\* the threat addThreat appends to a.threats
addThreat(level, threatType, description, cmd) ==
    <<[Type |-> threatType, Level |-> level, Description |-> description,
       Command |-> cmd.Raw, Line |-> cmd.Line,
       Suggestions |-> generateSuggestions(threatType, cmd)]>>

addPattern(a, patternType, description, occurrences, examples) ==
    [a EXCEPT !.patterns = Append(@,
        [Pattern |-> patternType, Description |-> description,
         Occurrences |-> occurrences, Examples |-> examples])]

addAnomaly(a, anomalyType, description, command, line) ==
    [a EXCEPT !.anomalies = Append(@,
        [Type |-> anomalyType, Description |-> description, Command |-> command,
         Line |-> line])]

\* `for pattern, description := range table` visits the keys of a Go map in an
\* order the runtime picks anew for every loop.  Keys that do not match the
\* command line have no effect, so an iteration is modelled by the order in
\* which it visits the matching keys: any permutation of them.
KeyOrders(S) ==
    {f \in [1..Cardinality(S) -> S] : \A i, j \in 1..Cardinality(S) : f[i] = f[j] => i = j}

MatchOrders(table, commandLine) ==
    KeyOrders({pattern \in DOMAIN table : MatchString(pattern, commandLine)})

\* the iteration orders of the three range loops analyzeCommand runs on cmd
CommandOrders(cmd) ==
    [critical : MatchOrders(criticalPatterns, cmd.Raw),
     privilege : MatchOrders(privilegePatterns, cmd.Raw),
     network : MatchOrders(networkPatterns, cmd.Raw)]

\* the loop over cmd.Arguments[i..] of checkCriticalCommands for rm
RECURSIVE rmThreatLoop(_, _)
rmThreatLoop(cmd, i) ==
    IF i > Len(cmd.Arguments) THEN <<>>
    ELSE LET arg == cmd.Arguments[i]
         IN  (IF Contains(arg, "/") /\ ~HasPrefix(arg, "./")
              THEN addThreat("HIGH", "dangerous_deletion",
                             "Eliminacion recursiva forzada en directorio del sistema", cmd)
              ELSE <<>>)
             \o rmThreatLoop(cmd, i + 1)

\* the loop over cmd.Arguments[i..] of checkCriticalCommands for dd
RECURSIVE ddThreatLoop(_, _)
ddThreatLoop(cmd, i) ==
    IF i > Len(cmd.Arguments) THEN <<>>
    ELSE (IF Contains(cmd.Arguments[i], "/dev/")
          THEN addThreat("CRITICAL", "disk_manipulation",
                         "Manipulacion directa de dispositivo de disco", cmd)
          ELSE <<>>)
         \o ddThreatLoop(cmd, i + 1)

\* the checks of checkCriticalCommands after the table
specificCriticalChecks(cmd) ==
    (IF cmd.Command = "rm"
        /\ (hasFlag(cmd, "rf") \/ (hasFlag(cmd, "r") /\ hasFlag(cmd, "f")))
     THEN rmThreatLoop(cmd, 1) ELSE <<>>)
    \o (IF cmd.Command = "dd" THEN ddThreatLoop(cmd, 1) ELSE <<>>)

\* a checkCriticalCommands without the table of patterns
checkCriticalCommandsNoTable(cmd, order) == specificCriticalChecks(cmd)

\* order: the matching keys of criticalPatterns in iteration order; the loop
\* returns at the first one
checkCriticalCommands(cmd, order) ==
    IF order # <<>>
    THEN addThreat("CRITICAL", "critical_command", criticalPatterns[order[1]], cmd)
    ELSE specificCriticalChecks(cmd)

checkPrivilegeEscalation(cmd, order) ==
    IF order # <<>>
    THEN addThreat("HIGH", "privilege_escalation", privilegePatterns[order[1]], cmd)
    ELSE IF /\ cmd.Command = "sudo"
            /\ Len(cmd.Arguments) > 0
            /\ contains(<<"rm", "chmod", "chown", "mount", "umount">>, cmd.Arguments[1])
         THEN addThreat("MEDIUM", "sudo_dangerous",
                        "Uso de sudo con comando potencialmente peligroso", cmd)
         ELSE <<>>

\* a range loop of checkNetworkActivity that returns at the first match
networkPatternLoopFirst(cmd, order, i) ==
    IF i > Len(order) THEN <<>>
    ELSE addThreat("MEDIUM", "suspicious_network", networkPatterns[order[i]], cmd)

\* the range loop of checkNetworkActivity over the matching keys order[i..]
RECURSIVE networkPatternLoop(_, _, _)
networkPatternLoop(cmd, order, i) ==
    IF i > Len(order) THEN <<>>
    ELSE addThreat("MEDIUM", "suspicious_network", networkPatterns[order[i]], cmd)
         \o networkPatternLoop(cmd, order, i + 1)

\* the loop over suspiciousDomains[j..] for one argument
RECURSIVE domainLoop(_, _, _)
domainLoop(cmd, arg, j) ==
    IF j > Len(suspiciousDomains) THEN <<>>
    ELSE (IF Contains(arg, suspiciousDomains[j])
          THEN addThreat("MEDIUM", "suspicious_download",
                         "Descarga desde dominio sospechoso: " \o suspiciousDomains[j], cmd)
          ELSE <<>>)
         \o domainLoop(cmd, arg, j + 1)

\* the loop over dangerousExtensions[j..] for one argument
RECURSIVE extensionLoop(_, _, _)
extensionLoop(cmd, arg, j) ==
    IF j > Len(dangerousExtensions) THEN <<>>
    ELSE (IF HasSuffix(arg, dangerousExtensions[j])
          THEN addThreat("MEDIUM", "dangerous_file_download",
                         "Descarga de archivo ejecutable", cmd)
          ELSE <<>>)
         \o extensionLoop(cmd, arg, j + 1)

\* the loop over cmd.Arguments[i..] of checkNetworkActivity for wget and curl
RECURSIVE downloadArgLoop(_, _)
downloadArgLoop(cmd, i) ==
    IF i > Len(cmd.Arguments) THEN <<>>
    ELSE LET arg == cmd.Arguments[i]
         IN  (IF HasPrefix(arg, "http://") \/ HasPrefix(arg, "https://")
              THEN domainLoop(cmd, arg, 1) \o extensionLoop(cmd, arg, 1)
              ELSE <<>>)
             \o downloadArgLoop(cmd, i + 1)

\* the loop over cmd.Arguments[i..] of checkNetworkActivity for ssh
RECURSIVE sshArgLoop(_, _)
sshArgLoop(cmd, i) ==
    IF i > Len(cmd.Arguments) THEN <<>>
    ELSE LET arg == cmd.Arguments[i]
         IN  (IF Contains(arg, "root@")
              THEN addThreat("MEDIUM", "root_ssh", "Conexion SSH como usuario root", cmd)
              ELSE <<>>)
             \o (IF MatchString("192\\.168\\.|10\\.|172\\.", arg)
                 THEN addThreat("LOW", "private_network_ssh",
                                "Conexion SSH a red privada", cmd)
                 ELSE <<>>)
             \o sshArgLoop(cmd, i + 1)

checkNetworkActivity(cmd, order) ==
    networkPatternLoop(cmd, order, 1)
    \o (IF contains(<<"wget", "curl">>, cmd.Command) THEN downloadArgLoop(cmd, 1) ELSE <<>>)
    \o (IF cmd.Command = "ssh" THEN sshArgLoop(cmd, 1) ELSE <<>>)

sensitiveFiles ==
    <<"/etc/passwd", "/etc/shadow", "/etc/hosts", "/etc/fstab",
      "/boot/", "/sys/", "/proc/", "~/.ssh/", "~/.bashrc">>

\* the loop over sensitiveFiles[j..] for one argument
RECURSIVE sensitiveLoop(_, _, _)
sensitiveLoop(cmd, arg, j) ==
    IF j > Len(sensitiveFiles) THEN <<>>
    ELSE (IF Contains(arg, sensitiveFiles[j])
          THEN addThreat("MEDIUM", "sensitive_file_access",
                         "Acceso a archivo sensible del sistema: " \o arg, cmd)
          ELSE <<>>)
         \o sensitiveLoop(cmd, arg, j + 1)

\* the loop over cmd.Arguments[i..] of checkFileManipulation
RECURSIVE fileManipulationLoop(_, _)
fileManipulationLoop(cmd, i) ==
    IF i > Len(cmd.Arguments) THEN <<>>
    ELSE sensitiveLoop(cmd, cmd.Arguments[i], 1) \o fileManipulationLoop(cmd, i + 1)

checkFileManipulation(cmd) ==
    IF contains(<<"cat", "less", "more", "head", "tail", "grep", "sed", "awk">>, cmd.Command)
    THEN fileManipulationLoop(cmd, 1)
    ELSE <<>>

checkCommandChaining(cmd) ==
    IF /\ Contains(cmd.Raw, "&&") \/ Contains(cmd.Raw, ";")
       /\ Contains(cmd.Raw, "wget") /\ Contains(cmd.Raw, "chmod")
    THEN addThreat("HIGH", "download_execute_chain",
                   "Cadena de descarga y ejecucion detectada", cmd)
    ELSE <<>>

suspiciousPatterns ==
    <<"malware", "payload", "exploit", "backdoor", "shell", "reverse", "bind", "nc", "netcat">>

\* the loop over suspiciousPatterns[j..] for one argument
RECURSIVE suspiciousNameLoop(_, _, _)
suspiciousNameLoop(cmd, arg, j) ==
    IF j > Len(suspiciousPatterns) THEN <<>>
    ELSE (IF Contains(ToLower(arg), suspiciousPatterns[j])
          THEN addThreat("HIGH", "suspicious_filename",
                         "Descarga con nombre sospechoso: " \o suspiciousPatterns[j], cmd)
          ELSE <<>>)
         \o suspiciousNameLoop(cmd, arg, j + 1)

\* the loop over cmd.Arguments[i..] of checkSuspiciousDownloads
RECURSIVE suspiciousDownloadLoop(_, _)
suspiciousDownloadLoop(cmd, i) ==
    IF i > Len(cmd.Arguments) THEN <<>>
    ELSE suspiciousNameLoop(cmd, cmd.Arguments[i], 1) \o suspiciousDownloadLoop(cmd, i + 1)

checkSuspiciousDownloads(cmd) ==
    IF contains(<<"wget", "curl">>, cmd.Command)
    THEN suspiciousDownloadLoop(cmd, 1)
    ELSE <<>>

\* ord: the iteration orders of the three tables for this command
analyzeCommand(a, cmd, ord) ==
    [a EXCEPT !.threats = @ \o checkCriticalCommands(cmd, ord.critical)
                            \o checkPrivilegeEscalation(cmd, ord.privilege)
                            \o checkNetworkActivity(cmd, ord.network)
                            \o checkFileManipulation(cmd)
                            \o checkCommandChaining(cmd)
                            \o checkSuspiciousDownloads(cmd)]

\* the Raw of the commands whose Command is one of names, in order
RECURSIVE rawsOf(_, _)
rawsOf(commandList, names) ==
    IF commandList = <<>> THEN <<>>
    ELSE IF contains(names, Head(commandList).Command)
         THEN <<Head(commandList).Raw>> \o rawsOf(Tail(commandList), names)
         ELSE rawsOf(Tail(commandList), names)

detectPatterns(a, commandList) ==
    LET sudoCommands == rawsOf(commandList, <<"sudo">>)
        networkCommands == rawsOf(commandList, <<"wget", "curl", "ssh", "scp", "rsync">>)
        a1 == IF Len(sudoCommands) > 5
              THEN addPattern(a, "excessive_sudo", "Uso excesivo de sudo detectado",
                              Len(sudoCommands), SubSeq(sudoCommands, 1, 3))
              ELSE a
    IN  IF Len(networkCommands) > 3
        THEN addPattern(a1, "multiple_network", "Multiples comandos de red detectados",
                        Len(networkCommands), SubSeq(networkCommands, 1, 3))
        ELSE a1

\* the loop of detectAnomalies from the pair (commandList[i], commandList[i+1])
RECURSIVE anomalyLoop(_, _, _)
anomalyLoop(a, commandList, i) ==
    IF i > Len(commandList) - 1 THEN a
    ELSE LET cur == commandList[i]
             next == commandList[i + 1]
             a1 == IF /\ contains(<<"wget", "curl">>, cur.Command)
                      /\ next.Command = "chmod"
                      /\ hasFlag(next, "x")
                   THEN addAnomaly(a, "download_execute_sequence",
                                   "Secuencia de descarga y dar permisos de ejecucion",
                                   cur.Raw \o " ; " \o next.Raw, cur.Line)
                   ELSE a
             a2 == IF cur.Command = "sudo" /\ next.Command = "rm"
                   THEN addAnomaly(a1, "sudo_delete_sequence",
                                   "Uso de sudo seguido de eliminacion",
                                   cur.Raw \o " ; " \o next.Raw, cur.Line)
                   ELSE a1
         IN  anomalyLoop(a2, commandList, i + 1)

detectAnomalies(a, commandList) == anomalyLoop(a, commandList, 1)

\* an isFileSystemErrorCritical that knows the directory errors only
isFileSystemErrorCriticalDirsOnly(fsError) ==
    fsError.Type \in {"directory_not_found", "parent_directory_not_found"}

isFileSystemErrorCritical(fsError) ==
    fsError.Type \in {"directory_not_found", "file_not_found", "parent_directory_not_found"}

\* the inner loop of analyzeFileSystem turning every error into a threat
RECURSIVE fsErrorLoopEvery(_, _, _)
fsErrorLoopEvery(cmd, errors, j) ==
    IF j > Len(errors) THEN <<>>
    ELSE addThreat("HIGH", "filesystem_error", errors[j].Description, cmd)
         \o fsErrorLoopEvery(cmd, errors, j + 1)

\* the inner loop of analyzeFileSystem over errors[j..]
RECURSIVE fsErrorLoop(_, _, _)
fsErrorLoop(cmd, errors, j) ==
    IF j > Len(errors) THEN <<>>
    ELSE (IF isFileSystemErrorCritical(errors[j])
          THEN addThreat("HIGH", "filesystem_error", errors[j].Description, cmd)
          ELSE <<>>)
         \o fsErrorLoop(cmd, errors, j + 1)

\* the loop of analyzeFileSystem over commandList[i..]
RECURSIVE fileSystemLoop(_, _, _)
fileSystemLoop(a, commandList, i) ==
    IF i > Len(commandList) THEN a
    ELSE LET cmd == commandList[i]
             r == ProcessCommand(a.filesystemState, cmd)
         IN  fileSystemLoop([a EXCEPT !.filesystemState = r.fs,
                                      !.fsErrors = @ \o r.errors,
                                      !.threats = @ \o fsErrorLoop(cmd, r.errors, 1)],
                            commandList, i + 1)

analyzeFileSystem(a, commandList) == fileSystemLoop(a, commandList, 1)

\* the first loop of Analyze over commandList[i..]; ords[i] is the iteration
\* order of the tables for commandList[i]
RECURSIVE analyzeCommandLoop(_, _, _, _)
analyzeCommandLoop(a, commandList, ords, i) ==
    IF i > Len(commandList) THEN a
    ELSE analyzeCommandLoop(analyzeCommand(a, commandList[i], ords[i]), commandList, ords, i + 1)

Analyze(a, commandList, ords) ==
    analyzeFileSystem(
        detectAnomalies(
            detectPatterns(analyzeCommandLoop(a, commandList, ords, 1), commandList),
            commandList),
        commandList)

\* the iteration orders one call of Analyze may see: one per command
RECURSIVE AnalyzeOrders(_)
AnalyzeOrders(commandList) ==
    IF commandList = <<>> THEN {<<>>}
    ELSE {<<ord>> \o rest : ord \in CommandOrders(Head(commandList)),
                            rest \in AnalyzeOrders(Tail(commandList))}

(***************************************************************************)
(* Replaying commands on one FileSystemState, one ProcessCommand call per  *)
(* step.                                                                   *)
(***************************************************************************)
Cmd(command, arguments, flags, raw) ==
    [Command |-> command, Arguments |-> arguments, Flags |-> flags, Pipes |-> <<>>,
     Redirects |-> <<>>, Line |-> 1, Raw |-> raw]

\* the raw text of a command with these arguments and flags
RawOf(command, arguments, flags) ==
    Join(<<command>> \o (IF "r" \in DOMAIN flags THEN <<"-r">> ELSE <<>>) \o arguments,
         " ")

MkCmd(command, arguments, flags) ==
    Cmd(command, arguments, flags, RawOf(command, arguments, flags))

FsPaths == {"foo", "..", "/tmp", "foo/f"}

OneArg == {<<>>} \cup {<<p>> : p \in FsPaths}
TwoArgs == {<<>>} \cup {<<p, q>> : p \in FsPaths, q \in FsPaths}
RecursiveFlag == [name \in {"r"} |-> "true"]

MkdirCommands == {MkCmd("mkdir", a, NoFlags) : a \in OneArg \cup {<<"foo", "foo">>}}
CdCommands == {MkCmd("cd", a, NoFlags) : a \in OneArg}
RmdirCommands == {MkCmd("rmdir", a, NoFlags) : a \in OneArg}
TouchCommands == {MkCmd("touch", a, NoFlags) : a \in OneArg}
RmCommands == {MkCmd("rm", a, f) : a \in OneArg, f \in {NoFlags, RecursiveFlag}}
CpCommands == {MkCmd("cp", a, NoFlags) : a \in TwoArgs}
MvCommands == {MkCmd("mv", a, NoFlags) : a \in TwoArgs}
\* the node of `head | pipe`: the pipeline of head holds pipe
Piped(head, pipe) ==
    [head EXCEPT !.Pipes = <<pipe>>, !.Raw = head.Raw \o " | " \o pipe.Raw]

ReadFileCommands ==
    {MkCmd("cat", a, NoFlags) : a \in OneArg \cup {<<"-n", "foo/f">>}}
        \cup {Piped(MkCmd("cat", <<"foo">>, NoFlags), MkCmd("touch", <<"foo">>, NoFlags))}
OtherCommands ==
    {MkCmd("ls", a, NoFlags) : a \in OneArg}
        \cup {Piped(MkCmd("ls", <<>>, NoFlags), MkCmd("mkdir", <<"foo">>, NoFlags))}

\* before any command is replayed there is no last command
NoLast == [cmd |-> Cmd("", <<>>, NoFlags, ""), errors |-> <<>>, before |-> NewFileSystemState]

InitFs ==
    /\ fsState = NewFileSystemState
    /\ last = NoLast
    /\ prevMkdir = NoPath
    /\ nCmds = 0
    /\ IdleLex /\ IdleParse /\ IdleAn /\ IdleReq /\ IdleSpell

\* whether cmd is `mkdir p` for a p that resolves to no known directory of f
MkdirOfNew(f, cmd) ==
    /\ cmd.Command = "mkdir"
    /\ Len(cmd.Arguments) = 1
    /\ resolvePath(f, cmd.Arguments[1]) \notin f.directories

Replay(cmd) ==
    /\ nCmds < MaxCmds
    /\ LET r == ProcessCommand(fsState, cmd)
       IN  /\ fsState' = r.fs
           /\ last' = [cmd |-> cmd, errors |-> r.errors, before |-> fsState]
    /\ prevMkdir' = IF MkdirOfNew(last.before, last.cmd)
                    THEN last.cmd.Arguments[1] ELSE NoPath
    /\ nCmds' = nCmds + 1
    /\ UNCHANGED <<lexVars, parseVars, anVars, reqVars, spellVars>>

Mkdir == \E cmd \in MkdirCommands : Replay(cmd)
Cd == \E cmd \in CdCommands : Replay(cmd)
Rmdir == \E cmd \in RmdirCommands : Replay(cmd)
Touch == \E cmd \in TouchCommands : Replay(cmd)
Rm == \E cmd \in RmCommands : Replay(cmd)
Cp == \E cmd \in CpCommands : Replay(cmd)
Mv == \E cmd \in MvCommands : Replay(cmd)
FileRead == \E cmd \in ReadFileCommands : Replay(cmd)
Other == \E cmd \in OtherCommands : Replay(cmd)

NextFs == Mkdir \/ Cd \/ Rmdir \/ Touch \/ Rm \/ Cp \/ Mv \/ FileRead \/ Other

SpecFs == InitFs /\ [][NextFs]_vars

ErrorTypes(errors) == {errors[i].Type : i \in DOMAIN errors}

\* C3: builtin (seed) directories are never deleted: after replaying any
\* sequence of commands every directory of the seed set is still known.
C3_BuiltinProtected == fsState.initialDirs \subseteq fsState.directories

\* C4: when `mkdir p` (p resolving to no known directory) is immediately
\* followed by `cd p`, the cd returns no directory_not_found error and the
\* current directory is the resolved path of p.
C4_MkdirThenCd ==
    (/\ prevMkdir # NoPath
     /\ last.cmd.Command = "cd"
     /\ last.cmd.Arguments = <<prevMkdir>>)
    => /\ "directory_not_found" \notin ErrorTypes(last.errors)
       /\ fsState.currentDirectory = resolvePath(last.before, prevMkdir)

\* `mkdir foo` then `cd foo` replayed after an earlier command that changed
\* the current directory
C4_Witness ==
    /\ prevMkdir = "foo"
    /\ last.cmd.Command = "cd"
    /\ last.cmd.Arguments = <<"foo">>
    /\ last.before.currentDirectory # "/home/user"
    /\ fsState.currentDirectory \notin fsState.initialDirs

\* the arguments path resolution is tried on in every state of the replay
ResolveArgs ==
    FsPaths \cup {"", ".", "~", "~/x", "~x", "/", "/tmp/x", "//tmp/", "/a/../b",
                  "/..", "a/./b", "foo/..", "../..", "./foo", "foo/"}

\* an absolute path in the form filepath.Clean returns: no empty, "." or ".."
\* element and no trailing separator
IsAbsoluteClean(p) ==
    \/ p = "/"
    \/ /\ HasPrefix(p, "/")
       /\ ~HasSuffix(p, "/")
       /\ ~Contains(p, "//")
       /\ ~Contains(p \o "/", "/./")
       /\ ~Contains(p \o "/", "/../")

\* C13: in every filesystem state, resolving an absolute clean path returns
\* it unchanged, the resolution of any argument is absolute and clean, and
\* resolving it again changes nothing.
C13_ResolveIdempotent ==
    \A p \in ResolveArgs \cup fsState.directories \cup fsState.files :
        LET resolved == resolvePath(fsState, p)
        IN  /\ IsAbsoluteClean(p) => resolved = p
            /\ IsAbsoluteClean(resolved)
            /\ resolvePath(fsState, resolved) = resolved

\* a `cd` has resolved a relative argument against a current directory other
\* than the initial one, to a path that differs from the argument
C13_Witness ==
    /\ last.cmd.Command = "cd"
    /\ last.errors = <<>>
    /\ last.before.currentDirectory # "/home/user"
    /\ Len(last.cmd.Arguments) = 1
    /\ ~HasPrefix(last.cmd.Arguments[1], "/")
    /\ fsState.currentDirectory = resolvePath(last.before, last.cmd.Arguments[1])
    /\ fsState.currentDirectory # last.before.currentDirectory
    /\ resolvePath(fsState, "a/./b") = fsState.currentDirectory \o "/a/b"

\* C16: replaying `cd d` with d resolving to no known directory returns
\* exactly one directory_not_found error, whose missing dependency is a
\* directory with the remedial command `mkdir d`, and leaves the current
\* directory, the directories and the files as they were; with d resolving
\* to a known directory it returns no error and the current directory becomes
\* the resolved path.
C16_CdOutcome ==
    (last.cmd.Command = "cd" /\ Len(last.cmd.Arguments) = 1) =>
        LET d == last.cmd.Arguments[1]
            resolved == resolvePath(last.before, d)
        IN  IF resolved \notin last.before.directories
            THEN /\ Len(last.errors) = 1
                 /\ last.errors[1].Type = "directory_not_found"
                 /\ last.errors[1].MissingDependency.Type = "directory"
                 /\ last.errors[1].MissingDependency.Required = "mkdir " \o d
                 /\ fsState.currentDirectory = last.before.currentDirectory
                 /\ fsState.directories = last.before.directories
                 /\ fsState.files = last.before.files
            ELSE /\ last.errors = <<>>
                 /\ fsState.currentDirectory = resolved

\* a `cd` into a directory that an earlier command removed has failed
C16_Witness ==
    /\ last.cmd.Command = "cd"
    /\ Len(last.cmd.Arguments) = 1
    /\ Len(last.errors) = 1
    /\ resolvePath(last.before, last.cmd.Arguments[1]) \in NewFileSystemState.directories
    /\ last.before.currentDirectory # "/home/user"

(***************************************************************************)
(* Analyzer.Analyze on a command list, run twice, each run on its own      *)
(* freshly constructed Analyzer.                                           *)
(***************************************************************************)
Runs == {1, 2}

FlagSet(names) == [name \in names |-> "true"]

SampleCommands ==
    {Cmd("rm", <<"/">>, FlagSet({"rf"}), "rm -rf /"),
     Cmd("ls", <<>>, NoFlags, "ls"),
     Cmd("chmod", <<"777", "/mkfs">>, NoFlags, "chmod 777 /mkfs"),
     Cmd("ssh", <<"10.0.0.1", "nc", "10.0.0.2">>, NoFlags, "ssh 10.0.0.1 nc 10.0.0.2"),
     Cmd("sudo", <<"su", "root">>, FlagSet({"s"}), "sudo -s su root"),
     Cmd("sudo", <<"rm", "x">>, NoFlags, "sudo rm x"),
     Cmd("wget", <<"http://pastebin.com/Shell.sh">>, NoFlags, "wget http://pastebin.com/Shell.sh"),
     Cmd("chmod", <<"script.sh">>, FlagSet({"x"}), "chmod +x script.sh"),
     Cmd("cat", <<"missing.txt">>, NoFlags, "cat missing.txt")}

\* the parser numbers the commands by the line they start on
WithLines(commandList) == [i \in DOMAIN commandList |-> [commandList[i] EXCEPT !.Line = i]]

\* the same command n times
Repeated(cmd, n) == [i \in 1..n |-> cmd]

AnalyzeInputs ==
    {WithLines(l) : l \in UNION {[1..n -> SampleCommands] : n \in 1..MaxListLen}}
    \cup {WithLines(Repeated(Cmd("sudo", <<"rm", "x">>, NoFlags, "sudo rm x"), 6)),
          WithLines(Repeated(Cmd("curl", <<"http://10.0.0.1/a">>, NoFlags,
                                 "curl http://10.0.0.1/a"), 4))}

InitAnalyze ==
    /\ commands \in AnalyzeInputs
    /\ analyzers = [r \in Runs |-> NewAnalyzer]
    /\ analyzed = {}
    /\ IdleLex /\ IdleParse /\ IdleFs /\ IdleReq /\ IdleSpell

RunAnalyze(r) ==
    /\ r \notin analyzed
    /\ \E ords \in AnalyzeOrders(commands) :
           analyzers' = [analyzers EXCEPT ![r] = Analyze(@, commands, ords)]
    /\ analyzed' = analyzed \cup {r}
    /\ UNCHANGED <<commands, lexVars, parseVars, fsVars, reqVars, spellVars>>

NextAnalyze == \E r \in Runs : RunAnalyze(r)

SpecAnalyze == InitAnalyze /\ [][NextAnalyze]_vars

\* what Analyze returns: a.threats, a.patterns, a.anomalies
Returned(a) == <<a.threats, a.patterns, a.anomalies>>

\* C5: every command of the list whose raw text is `rm -rf /` gets a
\* CRITICAL threat attributed to it (its raw text and its line), whatever
\* commands precede or follow it.
C5_RmRfRootCritical ==
    \A r \in analyzed : \A i \in DOMAIN commands :
        commands[i].Raw = "rm -rf /"
        => \E k \in DOMAIN analyzers[r].threats :
               /\ analyzers[r].threats[k].Level = "CRITICAL"
               /\ analyzers[r].threats[k].Command = "rm -rf /"
               /\ analyzers[r].threats[k].Line = commands[i].Line

\* a run has returned on a list where `rm -rf /` follows another command
\* that raised threats of its own
C5_Witness ==
    /\ 1 \in analyzed
    /\ Len(commands) = 2
    /\ commands[1].Raw = "chmod 777 /mkfs"
    /\ commands[2].Raw = "rm -rf /"
    /\ Len(analyzers[1].threats) >= 2

\* C9: two runs of Analyze on the same command list, each on a fresh
\* Analyzer, return identical threat, pattern and anomaly lists.
C9_Deterministic ==
    analyzed = Runs => Returned(analyzers[1]) = Returned(analyzers[2])

(***************************************************************************)
(* The pipeline of analyzeContent: tokenize, then parse, then analyze.     *)
(***************************************************************************)
PipeInputs ==
    {"sudo rm -rf /tmp/*",
     "ls\nsudo rm -rf /tmp/*\nls",
     "cat missing.txt",
     "touch missing.txt\ncat missing.txt",
     "wget http://x.com/script.sh\nchmod +x script.sh",
     "mkdir foo; cd foo",
     "ls | grep a > out",
     "chmod 777 /mkfs",
     "ssh 10.0.0.1 nc 10.0.0.2"}

InitPipe ==
    /\ lex \in {NewLexer(input) : input \in PipeInputs}
    /\ lexPc = "scan"
    /\ parser = Idle
    /\ parsePc = Idle
    /\ IdleAn /\ IdleFs /\ IdleReq /\ IdleSpell

\* p := parser.NewParser(tokens)
ParseStart ==
    /\ lexPc = "done"
    /\ parsePc = Idle
    /\ parser' = NewParser(lex.tokens)
    /\ parsePc' = "parse"
    /\ UNCHANGED <<lexVars, anVars, fsVars, reqVars, spellVars>>

\* one iteration of the loop of Parse
ParseStep ==
    /\ parsePc = "parse"
    /\ parser.position < Len(parser.tokens)
    /\ parser' = parseStep(parser)
    /\ UNCHANGED <<parsePc, lexVars, anVars, fsVars, reqVars, spellVars>>

\* Parse returns the commands
ParseFinish ==
    /\ parsePc = "parse"
    /\ parser.position >= Len(parser.tokens)
    /\ parsePc' = "done"
    /\ commands' = parser.commands
    /\ UNCHANGED <<parser, analyzers, analyzed, lexVars, fsVars, reqVars, spellVars>>

\* analyzer := semantic.NewAnalyzer(); analyzer.Analyze(commands)
Semantic ==
    /\ parsePc = "done"
    /\ analyzed = {}
    /\ \E ords \in AnalyzeOrders(commands) :
           analyzers' = <<Analyze(NewAnalyzer, commands, ords)>>
    /\ analyzed' = {1}
    /\ UNCHANGED <<commands, lexVars, parseVars, fsVars, reqVars, spellVars>>

NextPipe == LexStep \/ LexFinish \/ ParseStart \/ ParseStep \/ ParseFinish \/ Semantic

SpecPipe == InitPipe /\ [][NextPipe]_vars

\* the lines of the input, split at newlines
RECURSIVE InputLines(_)
InputLines(s) ==
    IF \E i \in 1..Len(s) : SubSeq(s, i, i) = "\n"
    THEN LET i == CHOOSE i \in 1..Len(s) :
                      SubSeq(s, i, i) = "\n" /\ \A j \in 1..(i - 1) : SubSeq(s, j, j) # "\n"
         IN  <<SubSeq(s, 1, i - 1)>> \o InputLines(SubSeq(s, i + 1, Len(s)))
    ELSE <<s>>

\* C6: for an input history containing the line `sudo rm -rf /tmp/*` the
\* pipeline reports a threat of level HIGH or CRITICAL on that line.
C6_SudoRmDetected ==
    \A n \in 1..(IF analyzed = {1} THEN Len(InputLines(lex.input)) ELSE 0) :
        InputLines(lex.input)[n] = "sudo rm -rf /tmp/*"
        => \E k \in DOMAIN analyzers[1].threats :
               /\ analyzers[1].threats[k].Level \in {"HIGH", "CRITICAL"}
               /\ analyzers[1].threats[k].Line = n

\* C7: for the input `cat missing.txt` the filesystem machine reports exactly
\* one error: a file_not_found whose missing dependency is the file
\* missing.txt with remedy `touch missing.txt`; and the analyzer adds exactly
\* one HIGH threat, the filesystem_error threat for that error.
C7_CatMissing ==
    (analyzed = {1} /\ lex.input = "cat missing.txt")
    => LET a == analyzers[1]
           high == {k \in DOMAIN a.threats : a.threats[k].Level = "HIGH"}
       IN  /\ Len(a.fsErrors) = 1
           /\ a.fsErrors[1].Type = "file_not_found"
           /\ a.fsErrors[1].MissingDependency =
                  [Type |-> "file", Name |-> "missing.txt", Required |-> "touch missing.txt"]
           /\ Cardinality(high) = 1
           /\ \A k \in high :
                  /\ a.threats[k].Type = "filesystem_error"
                  /\ a.threats[k].Description = a.fsErrors[1].Description
                  /\ a.threats[k].Command = "cat missing.txt"

\* the pipeline has finished on `cat missing.txt` and reported an error
C7_Witness ==
    /\ analyzed = {1}
    /\ lex.input = "cat missing.txt"
    /\ analyzers[1].fsErrors # <<>>
    /\ analyzers[1].threats # <<>>

\* C8: for the input `wget http://x.com/script.sh` then `chmod +x script.sh`
\* the pipeline yields a download_execute_sequence anomaly that references
\* both commands.
C8_DownloadExecute ==
    (analyzed = {1} /\ lex.input = "wget http://x.com/script.sh\nchmod +x script.sh")
    => \E k \in DOMAIN analyzers[1].anomalies :
           /\ analyzers[1].anomalies[k].Type = "download_execute_sequence"
           /\ Contains(analyzers[1].anomalies[k].Command, "wget")
           /\ Contains(analyzers[1].anomalies[k].Command, "chmod")

(***************************************************************************)
(* Concurrent requests (package handlers).  Every request runs             *)
(* analyzeContentWithMonitoring in its own goroutine; all of them use the  *)
(* package variable globalMonitor, which takes no lock.                    *)
(***************************************************************************)
Requests == {1, 2}

ReqContents == {"cat missing.txt", "chmod 777 /mkfs"}

\* monitor.NewMonitor; id tells the AnalysisReport objects apart
NewMonitor == [currentReport |-> [id |-> 0, Phases |-> <<>>]]

\* Monitor.StartPhase: the metric of a phase; it belongs to the request that
\* started the phase
StartPhase(phase, r) == [Phase |-> phase, request |-> r]

NoMetric == [Phase |-> "", request |-> 0]

NewRequest(content) ==
    [content |-> content, pc |-> "LEXICO", step |-> "run", metric |-> NoMetric,
     read |-> NewMonitor.currentReport,
     tokens |-> <<>>, lexErrors |-> <<>>,
     commands |-> <<>>, parseErrors |-> <<>>, warnings |-> <<>>,
     threats |-> <<>>, patterns |-> <<>>, anomalies |-> <<>>,
     report |-> <<>>]

\* what analyzeContentWithMonitoring returns, but for the statistics
Result(req) ==
    [tokens |-> req.tokens, lexErrors |-> req.lexErrors,
     commands |-> req.commands, parseErrors |-> req.parseErrors,
     warnings |-> req.warnings,
     threats |-> req.threats, patterns |-> req.patterns, anomalies |-> req.anomalies]

InitReq ==
    /\ globalMonitor = NewMonitor
    /\ monitorWriters = {}
    /\ reqs \in [Requests -> {NewRequest(content) : content \in ReqContents}]
    /\ IdleLex /\ IdleParse /\ IdleAn /\ IdleFs /\ IdleSpell

\* StartPhase("LEXICO"); lex := lexer.NewLexer(content); lex.Tokenize()
LexPhase(r) ==
    /\ reqs[r].pc = "LEXICO" /\ reqs[r].step = "run"
    /\ LET l == Tokenize(NewLexer(reqs[r].content))
       IN  reqs' = [reqs EXCEPT ![r].metric = StartPhase("LEXICO", r),
                                ![r].tokens = l.tokens,
                                ![r].lexErrors = l.errors,
                                ![r].step = "read"]
    /\ UNCHANGED <<globalMonitor, monitorWriters, lexVars, parseVars, anVars, fsVars, spellVars>>

\* StartPhase("SINTACTICO"); p := parser.NewParser(tokens); p.Parse()
ParsePhase(r) ==
    /\ reqs[r].pc = "SINTACTICO" /\ reqs[r].step = "run"
    /\ LET p == Parse(NewParser(reqs[r].tokens))
       IN  reqs' = [reqs EXCEPT ![r].metric = StartPhase("SINTACTICO", r),
                                ![r].commands = p.commands,
                                ![r].parseErrors = p.errors,
                                ![r].warnings = p.warnings,
                                ![r].step = "read"]
    /\ UNCHANGED <<globalMonitor, monitorWriters, lexVars, parseVars, anVars, fsVars, spellVars>>

\* StartPhase("SEMANTICO"); analyzer := semantic.NewAnalyzer(); analyzer.Analyze(commands)
SemanticPhase(r) ==
    /\ reqs[r].pc = "SEMANTICO" /\ reqs[r].step = "run"
    /\ \E ords \in AnalyzeOrders(reqs[r].commands) :
           LET a == Analyze(NewAnalyzer, reqs[r].commands, ords)
           IN  reqs' = [reqs EXCEPT ![r].metric = StartPhase("SEMANTICO", r),
                                    ![r].threats = a.threats,
                                    ![r].patterns = a.patterns,
                                    ![r].anomalies = a.anomalies,
                                    ![r].step = "read"]
    /\ UNCHANGED <<globalMonitor, monitorWriters, lexVars, parseVars, anVars, fsVars, spellVars>>

\* EndPhase, first half: the read of m.currentReport.Phases that append starts
\* from
EndPhaseRead(r) ==
    /\ reqs[r].step = "read"
    /\ reqs' = [reqs EXCEPT ![r].read = globalMonitor.currentReport, ![r].step = "write"]
    /\ UNCHANGED <<globalMonitor, monitorWriters, lexVars, parseVars, anVars, fsVars, spellVars>>

NextPhase(phase) ==
    CASE phase = "LEXICO" -> "SINTACTICO"
      [] phase = "SINTACTICO" -> "SEMANTICO"
      [] phase = "SEMANTICO" -> "FINISH"

\* EndPhase, second half: m.currentReport.Phases = append(<what was read>,
\* *metric).  No lock orders it against the other requests: it overwrites
\* what they appended since the read, and when FinishAnalysis replaced the
\* report since the read, the store lands in the old report or in the new one.
EndPhaseWrite(r) ==
    /\ reqs[r].step = "write"
    /\ \/ globalMonitor' = [globalMonitor EXCEPT !.currentReport.Phases =
                                Append(reqs[r].read.Phases, reqs[r].metric)]
       \/ /\ reqs[r].read.id # globalMonitor.currentReport.id
          /\ UNCHANGED globalMonitor
    /\ monitorWriters' = monitorWriters \cup {r}
    /\ reqs' = [reqs EXCEPT ![r].pc = NextPhase(@), ![r].step = "run"]
    /\ UNCHANGED <<lexVars, parseVars, anVars, fsVars, spellVars>>

\* Monitor.FinishAnalysis: print the report, then replace it with an empty one
FinishAnalysis(r) ==
    /\ reqs[r].pc = "FINISH"
    /\ IF Len(globalMonitor.currentReport.Phases) = 0
       THEN /\ reqs' = [reqs EXCEPT ![r].pc = "DONE"]
            /\ UNCHANGED <<globalMonitor, monitorWriters>>
       ELSE /\ reqs' = [reqs EXCEPT ![r].pc = "DONE",
                                    ![r].report = globalMonitor.currentReport.Phases]
            /\ globalMonitor' = [currentReport |->
                                    [id |-> globalMonitor.currentReport.id + 1,
                                     Phases |-> <<>>]]
            /\ monitorWriters' = monitorWriters \cup {r}
    /\ UNCHANGED <<lexVars, parseVars, anVars, fsVars, spellVars>>

NextReq ==
    \E r \in Requests :
        \/ LexPhase(r)
        \/ ParsePhase(r)
        \/ SemanticPhase(r)
        \/ EndPhaseRead(r)
        \/ EndPhaseWrite(r)
        \/ FinishAnalysis(r)

SpecReq == InitReq /\ [][NextReq]_vars

\* the results analyzeContentWithMonitoring may return for content when it is
\* the only request
SoloResults(content) ==
    LET l == Tokenize(NewLexer(content))
        p == Parse(NewParser(l.tokens))
    IN  {[tokens |-> l.tokens, lexErrors |-> l.errors,
          commands |-> p.commands, parseErrors |-> p.errors, warnings |-> p.warnings,
          threats |-> Analyze(NewAnalyzer, p.commands, ords).threats,
          patterns |-> Analyze(NewAnalyzer, p.commands, ords).patterns,
          anomalies |-> Analyze(NewAnalyzer, p.commands, ords).anomalies] :
            ords \in AnalyzeOrders(p.commands)}

\* C10: with requests running concurrently, no mutable object is written by
\* more than one request (here: the shared monitor has at most one writer),
\* and the result of every finished request is a result of running it alone.
C10_RequestsIsolated ==
    /\ Cardinality(monitorWriters) <= 1
    /\ \A r \in Requests :
           reqs[r].pc = "DONE" => Result(reqs[r]) \in SoloResults(reqs[r].content)

(***************************************************************************)
(* SpellChecker (package parser) and the spelling-suggestions handler.     *)
(*                                                                         *)
(* A float64 is the fraction num/den it was computed from: 0.95 is 95/100  *)
(* and 1.0 - distance/length is (length - distance)/length.  Fractions are *)
(* compared by cross-multiplication.  An optional *SpellingSuggestion is a *)
(* sequence of length at most one.                                         *)
(***************************************************************************)
knownCommands ==
    {"ls", "cd", "pwd", "echo", "cat", "grep", "find", "head", "tail",
     "sort", "uniq", "wc", "diff", "file", "which", "whereis", "man",
     "cp", "mv", "rm", "mkdir", "rmdir", "touch", "chmod", "chown",
     "tar", "gzip", "gunzip", "zip", "unzip", "ln", "du", "df",
     "wget", "curl", "ssh", "scp", "rsync", "ping", "traceroute",
     "netstat", "ss", "iptables", "dig", "nslookup", "host",
     "git", "npm", "pip", "node", "python", "python3", "java", "gcc",
     "make", "cmake", "mvn", "gradle", "docker", "kubectl",
     "vim", "vi", "nano", "emacs", "code", "gedit",
     "sudo", "su", "ps", "top", "htop", "kill", "killall", "mount",
     "umount", "systemctl", "service", "crontab", "jobs", "bg", "fg",
     "nohup", "screen", "tmux", "history", "clear", "export", "alias",
     "unalias", "whoami", "id", "groups", "passwd", "useradd", "userdel",
     "awk", "sed", "tr", "cut", "paste", "xargs", "tee", "less", "more",
     "watch", "sort", "uniq", "comm", "join",
     "nc", "netcat", "socat", "openssl", "telnet", "ftp", "sftp",
     "lsof", "strace", "ltrace", "tcpdump", "wireshark", "iotop",
     "vmstat", "iostat", "free", "uptime", "uname"}

commonTypos ==
    "suo" :> "sudo" @@ "sud" :> "sudo" @@ "sude" :> "sudo" @@ "suod" :> "sudo" @@
    "dosu" :> "sudo" @@ "sl" :> "ls" @@ "lss" :> "ls" @@ "lst" :> "ls" @@
    "lis" :> "ls" @@ "cta" :> "cat" @@ "car" :> "cat" @@ "act" :> "cat" @@
    "grp" :> "grep" @@ "gerp" :> "grep" @@ "grap" :> "grep" @@ "greap" :> "grep" @@
    "crul" :> "curl" @@ "culr" :> "curl" @@ "crurl" :> "curl" @@ "curll" :> "curl" @@
    "wgte" :> "wget" @@ "wegt" :> "wget" @@ "wgett" :> "wget" @@ "shh" :> "ssh" @@
    "sssh" :> "ssh" @@ "ssh2" :> "ssh" @@ "chmdo" :> "chmod" @@ "chmood" :> "chmod" @@
    "chomd" :> "chmod" @@ "chmode" :> "chmod" @@ "gti" :> "git" @@ "gut" :> "git" @@
    "igt" :> "git" @@ "vmi" :> "vim" @@ "ivm" :> "vim" @@ "vom" :> "vim" @@
    "tpo" :> "top" @@ "opt" :> "top" @@ "toop" :> "top" @@ "kil" :> "kill" @@
    "killl" :> "kill" @@ "klil" :> "kill" @@ "mkdr" :> "mkdir" @@ "mkidr" :> "mkdir" @@
    "mdir" :> "mkdir" @@ "mvoe" :> "move" @@ "moev" :> "move" @@ "celar" :> "clear" @@
    "clera" :> "clear" @@ "claer" :> "clear" @@ "cler" :> "clear" @@ "ehco" :> "echo" @@
    "ecoh" :> "echo" @@ "eecho" :> "echo" @@ "hsitory" :> "history" @@ "histroy" :> "history" @@
    "histry" :> "history" @@ "fdin" :> "find" @@ "fnid" :> "find" @@ "fidn" :> "find" @@
    "hcmod" :> "chmod" @@ "chmo" :> "chmod" @@ "cmod" :> "chmod" @@ "owch" :> "chown" @@
    "chon" :> "chown" @@ "chonw" :> "chown" @@ "tuch" :> "touch" @@ "touhc" :> "touch" @@
    "toucn" :> "touch" @@ "mkfs." :> "mkfs" @@ "umnt" :> "umount" @@ "unmount" :> "umount" @@
    "umoutn" :> "umount"

\* NewSpellChecker leaving the typo table empty
NewSpellCheckerNoTypos == [knownCommands |-> knownCommands, commonTypos |-> <<>>]

NewSpellChecker == [knownCommands |-> knownCommands, commonTypos |-> commonTypos]

min(a, b, c) == IF a <= b /\ a <= c THEN a ELSE IF b <= c THEN b ELSE c

max(a, b) == IF a > b THEN a ELSE b

Float(num, den) == [num |-> num, den |-> den]

FloatLess(x, y) == x.num * y.den < y.num * x.den

FloatEq(x, y) == x.num * y.den = y.num * x.den

\* row i of the matrix, filled from column Len(row) on; prev is row i-1 and
\* column j is element j+1 of a row
RECURSIVE levenshteinRow(_, _, _, _, _)
levenshteinRow(s1, s2, i, prev, row) ==
    LET j == Len(row)
        cost == IF ByteAt(s1, i - 1) # ByteAt(s2, j - 1) THEN 1 ELSE 0
    IN  IF j > Len(s2) THEN row
        ELSE levenshteinRow(s1, s2, i, prev,
                 Append(row, min(prev[j + 1] + 1, row[j] + 1, prev[j] + cost)))

\* the rows i..Len(s1) of the matrix; returns the last row
RECURSIVE levenshteinRows(_, _, _, _)
levenshteinRows(s1, s2, i, prev) ==
    IF i > Len(s1) THEN prev
    ELSE levenshteinRows(s1, s2, i + 1, levenshteinRow(s1, s2, i, prev, <<i>>))

levenshteinDistance(s1, s2) ==
    IF Len(s1) = 0 THEN Len(s2)
    ELSE IF Len(s2) = 0 THEN Len(s1)
    ELSE levenshteinRows(s1, s2, 1, [j \in 1..(Len(s2) + 1) |-> j - 1])[Len(s2) + 1]

\* the inner loop of the sort, j..len(suggestions)-1 (0-based i and j)
RECURSIVE sortInner(_, _, _)
sortInner(suggestions, i, j) ==
    IF j >= Len(suggestions) THEN suggestions
    ELSE IF FloatLess(suggestions[i + 1].Similarity, suggestions[j + 1].Similarity)
         THEN sortInner([suggestions EXCEPT ![i + 1] = suggestions[j + 1],
                                            ![j + 1] = suggestions[i + 1]], i, j + 1)
         ELSE sortInner(suggestions, i, j + 1)

\* the outer loop of the sort, i..len(suggestions)-2
RECURSIVE sortOuter(_, _)
sortOuter(suggestions, i) ==
    IF i >= Len(suggestions) - 1 THEN suggestions
    ELSE sortOuter(sortInner(suggestions, i, i + 1), i + 1)

\* the range loop over sc.knownCommands, visiting the commands in order
RECURSIVE similarLoop(_, _, _, _)
similarLoop(command, maxDistance, order, k) ==
    IF k > Len(order) THEN <<>>
    ELSE LET knownCmd == order[k]
             distance == levenshteinDistance(command, knownCmd)
             length == max(Len(command), Len(knownCmd))
         IN  (IF distance <= maxDistance /\ distance > 0
              THEN <<[Command |-> knownCmd, Distance |-> distance,
                      Similarity |-> Float(length - distance, length)]>>
              ELSE <<>>)
             \o similarLoop(command, maxDistance, order, k + 1)

\* a sequence of the elements of S
RECURSIVE SeqOf(_)
SeqOf(S) ==
    IF S = {} THEN <<>>
    ELSE LET x == CHOOSE y \in S : TRUE IN <<x>> \o SeqOf(S \ {x})

\* Go leaves the iteration order of a map unspecified.  Commands that fail
\* the distance test add nothing, so an iteration is modelled by the order in
\* which it visits the commands that pass it.  The sort swaps only on a
\* strictly smaller similarity, so a list that is already sorted is returned
\* as it is, and only three suggestions are kept: every result is the
\* result of an order that starts with those three, and the orders are
\* drawn with every choice of the first three commands.
SimilarOrders(sc, command, maxDistance) ==
    LET S == {knownCmd \in sc.knownCommands :
                 LET distance == levenshteinDistance(command, knownCmd)
                 IN  distance <= maxDistance /\ distance > 0}
        n == IF Cardinality(S) > 3 THEN 3 ELSE Cardinality(S)
    IN  {first \o SeqOf(S \ {first[i] : i \in 1..n}) :
            first \in {f \in [1..n -> S] : \A i, j \in 1..n : f[i] = f[j] => i = j}}

\* findSimilarCommands for one iteration order of sc.knownCommands
findSimilarCommands(command, maxDistance, order) ==
    LET suggestions == sortOuter(similarLoop(command, maxDistance, order, 1), 0)
    IN  IF Len(suggestions) > 3 THEN SubSeq(suggestions, 1, 3) ELSE suggestions

TypoReason == "Error de tipeo comun"
SimilarReason == "Comando similar encontrado"

\* the suggestion CheckSpelling builds from a non-empty result of the search
similarSuggestion(command, suggestions) ==
    [Original |-> command, Suggested |-> suggestions[1].Command,
     Confidence |-> suggestions[1].Similarity, Reason |-> SimilarReason,
     Alternatives |-> Tail(suggestions)]

\* CheckSpelling consulting the typo table only when the search finds nothing
CheckSpellingSearchFirst(sc, command) ==
    IF command \in sc.knownCommands
    THEN {[suggestion |-> <<>>, searched |-> FALSE]}
    ELSE {LET suggestions == findSimilarCommands(command, 2, order)
          IN  [suggestion |->
                   IF Len(suggestions) > 0
                   THEN <<similarSuggestion(command, suggestions)>>
                   ELSE IF command \in DOMAIN sc.commonTypos
                   THEN <<[Original |-> command,
                           Suggested |-> sc.commonTypos[command],
                           Confidence |-> Float(95, 100), Reason |-> TypoReason,
                           Alternatives |-> <<>>]>>
                   ELSE <<>>,
               searched |-> TRUE] :
             order \in SimilarOrders(sc, command, 2)}

\* CheckSpelling: the values it may return, one per iteration order of the
\* map when the search runs.  searched records that findSimilarCommands ran.
CheckSpelling(sc, command) ==
    IF command \in sc.knownCommands
    THEN {[suggestion |-> <<>>, searched |-> FALSE]}
    ELSE IF command \in DOMAIN sc.commonTypos
    THEN {[suggestion |-> <<[Original |-> command,
                            Suggested |-> sc.commonTypos[command],
                            Confidence |-> Float(95, 100), Reason |-> TypoReason,
                            Alternatives |-> <<>>]>>,
           searched |-> FALSE]}
    ELSE {LET suggestions == findSimilarCommands(command, 2, order)
          IN  [suggestion |-> IF Len(suggestions) > 0
                              THEN <<similarSuggestion(command, suggestions)>>
                              ELSE <<>>,
               searched |-> TRUE] :
             order \in SimilarOrders(sc, command, 2)}

(***************************************************************************)
(* SpecSpell: one spelling-suggestions request.                            *)
(***************************************************************************)
\* words that are neither known commands nor in the typo table
OtherWords ==
    {"", "gitt", "pwdd", "pythno", "move", "mkfs", "lsx", "xyzzy", "dockr", "gz"}

SpellCommands == knownCommands \cup DOMAIN commonTypos \cup OtherWords

InitSpell ==
    /\ \E command \in SpellCommands :
           spell = [pc |-> "request", command |-> command]
    /\ IdleLex /\ IdleParse /\ IdleAn /\ IdleFs /\ IdleReq

GetSpellingSuggestions ==
    /\ spell.pc = "request"
    /\ IF spell.command = ""
       THEN spell' = [pc |-> "responded", command |-> spell.command, status |-> 400,
                      found |-> FALSE, suggestion |-> <<>>, searched |-> FALSE]
       ELSE \E result \in CheckSpelling(NewSpellChecker, spell.command) :
                spell' = [pc |-> "responded", command |-> spell.command, status |-> 200,
                          found |-> result.suggestion # <<>>,
                          suggestion |-> result.suggestion,
                          searched |-> result.searched]
    /\ UNCHANGED <<lexVars, parseVars, anVars, fsVars, reqVars>>

NextSpell == GetSpellingSuggestions

SpecSpell == InitSpell /\ [][NextSpell]_vars

\* C11: a command of the known-command set gets no suggestion; any other
\* command that is a key of the typo table gets the table's correction with
\* confidence exactly 0.95, and the edit-distance search is not run for it
\* ("sl" gets "ls" at 0.95).
C11_KnownOrTypoTable ==
    (spell.pc = "responded" /\ spell.status = 200) =>
        /\ spell.command \in knownCommands =>
               spell.suggestion = <<>> /\ ~spell.found
        /\ (spell.command \notin knownCommands /\ spell.command \in DOMAIN commonTypos) =>
               /\ Len(spell.suggestion) = 1
               /\ spell.suggestion[1].Suggested = commonTypos[spell.command]
               /\ FloatEq(spell.suggestion[1].Confidence, Float(95, 100))
               /\ ~spell.searched
        /\ spell.command = "sl" =>
               /\ Len(spell.suggestion) = 1
               /\ spell.suggestion[1].Suggested = "ls"
               /\ FloatEq(spell.suggestion[1].Confidence, Float(95, 100))

\* "sl" has been answered with a suggestion
C11_Witness ==
    /\ spell.pc = "responded"
    /\ spell.command = "sl"
    /\ spell.found
    /\ spell.suggestion[1].Original = "sl"

\* C12 as stated: "gti" gets "git" from the edit-distance search (distance 2),
\* not from the typo table.
C12_GtiByEditDistance ==
    (spell.pc = "responded" /\ spell.command = "gti") =>
        /\ Len(spell.suggestion) = 1
        /\ spell.suggestion[1].Suggested = "git"
        /\ levenshteinDistance("gti", "git") = 2
        /\ spell.searched
        /\ spell.suggestion[1].Reason = SimilarReason

\* C12 as amended: "gti" gets "git" from the typo table, with confidence 0.95
\* and without the edit-distance search being run; the edit distance between
\* "gti" and "git" is 2.
C12_GtiByTypoTable ==
    (spell.pc = "responded" /\ spell.command = "gti") =>
        /\ Len(spell.suggestion) = 1
        /\ spell.suggestion[1].Suggested = "git"
        /\ levenshteinDistance("gti", "git") = 2
        /\ ~spell.searched
        /\ spell.suggestion[1].Reason = TypoReason
        /\ FloatEq(spell.suggestion[1].Confidence, Float(95, 100))

\* "gti" has been answered with a suggestion
C12_Witness ==
    /\ spell.pc = "responded"
    /\ spell.command = "gti"
    /\ spell.found
    /\ "gti" \in DOMAIN commonTypos

(***************************************************************************)
(* SpecParse: Parser.Parse on the tokens of an input, one iteration of its *)
(* loop per step.                                                          *)
(***************************************************************************)
ParseAlphabet == {"a", " ", "\n", "|", ">", ";", "/"}

ParseInputs == StringsUpTo(ParseAlphabet, MaxParseLen)

InitParse ==
    /\ lex \in {Tokenize(NewLexer(input)) : input \in ParseInputs}
    /\ lexPc = "done"
    /\ parser = Idle
    /\ parsePc = Idle
    /\ IdleAn /\ IdleFs /\ IdleReq /\ IdleSpell

NextParse == ParseStart \/ ParseStep \/ ParseFinish

SpecParse == InitParse /\ [][NextParse]_vars

\* the nodes of a command list: the commands and the nodes of their pipelines
NodesOf(cmds) ==
    {cmds[i] : i \in DOMAIN cmds}
        \cup UNION {{cmds[i].Pipes[j] : j \in DOMAIN cmds[i].Pipes} : i \in DOMAIN cmds}

\* the parser is at the first token of a statement that has tokens, and that
\* token is not a Command token
AtNonCommandStatement ==
    /\ parsePc = "parse"
    /\ parser.position < Len(parser.tokens)
    /\ parserCurrent(parser).Type \notin {"NEWLINE", "EOF", "COMMAND"}
    /\ ~(parserCurrent(parser).Type = "OPERATOR" /\ parserCurrent(parser).Value = ";")

\* C14: every node Parse has returned so far, and every node of a returned
\* node's pipeline, has a non-empty command; and the step that parses a
\* statement whose first token is not a Command token records one
\* "expected command" syntax error and adds no node.
C14_NodesHaveCommand ==
    /\ [](parsePc # Idle => \A node \in NodesOf(parser.commands) : node.Command # "")
    /\ [][AtNonCommandStatement =>
              /\ parser'.commands = parser.commands
              /\ Len(parser'.errors) = Len(parser.errors) + 1
              /\ parser'.errors[Len(parser'.errors)].Message = "Se esperaba un comando"]_vars

\* Parse has returned a node with a pipeline after a statement that did not
\* start with a Command token
C14_Witness ==
    /\ parsePc = "done"
    /\ \E i \in DOMAIN parser.errors : parser.errors[i].Message = "Se esperaba un comando"
    /\ \E i \in DOMAIN parser.commands : Len(parser.commands[i].Pipes) > 0

\* the tokens of p from its position on, without the tokens of the statements
\* for which parseStep records a syntax error
RECURSIVE WithoutOffending(_)
WithoutOffending(p) ==
    IF p.position >= Len(p.tokens) THEN <<>>
    ELSE LET q == parseStep(p)
         IN  (IF Len(q.errors) > Len(p.errors) THEN <<>>
              ELSE SubSeq(p.tokens, p.position + 1, q.position))
             \o WithoutOffending(q)

\* C15: the statements for which Parse records a syntax error contribute no
\* node, and the other statements yield the nodes they yield when the
\* offending statements are absent: the commands returned are the commands
\* returned for the input without the offending statements.
C15_ErrorDiscardsStatement ==
    parsePc = "done" =>
        parser.commands =
            Parse(NewParser(WithoutOffending(NewParser(lex.tokens)))).commands

(***************************************************************************)
(* SpecFsThreats: Analyzer.Analyze on lists of commands that the virtual   *)
(* filesystem accepts or rejects with each kind of error.                  *)
(***************************************************************************)
FsErrorCommands ==
    {MkCmd("mkdir", <<>>, NoFlags),             \* missing_argument
     MkCmd("mkdir", <<"/tmp">>, NoFlags),       \* directory_exists
     MkCmd("mkdir", <<"d">>, NoFlags),
     MkCmd("cd", <<"d">>, NoFlags),             \* directory_not_found
     MkCmd("rmdir", <<"/tmp">>, NoFlags),       \* system_directory
     MkCmd("rmdir", <<"d">>, NoFlags),          \* directory_not_found
     MkCmd("touch", <<"d/f">>, NoFlags),        \* parent_directory_not_found
     MkCmd("rm", <<"d">>, NoFlags),             \* directory_without_recursive
     MkCmd("rm", <<"d/f", "g">>, NoFlags),      \* file_not_found, once or twice
     MkCmd("cat", <<"d/f">>, NoFlags),          \* file_not_found
     MkCmd("grep", <<"d/f">>, NoFlags),         \* file_not_found
     MkCmd("cp", <<"d/f", "e/f">>, NoFlags)}    \* file_not_found, parent_directory_not_found

FsErrorInputs ==
    {WithLines(l) : l \in UNION {[1..n -> FsErrorCommands] : n \in 1..MaxListLen}}

InitFsThreats ==
    /\ commands \in FsErrorInputs
    /\ analyzers = [r \in Runs |-> NewAnalyzer]
    /\ analyzed = {}
    /\ IdleLex /\ IdleParse /\ IdleFs /\ IdleReq /\ IdleSpell

SpecFsThreats == InitFsThreats /\ [][NextAnalyze]_vars

\* the kinds of filesystem error the claim names as promoted to threats
PromotedKinds == {"directory_not_found", "file_not_found", "parent_directory_not_found"}

\* the kinds of filesystem error the claim names as not promoted
AdvisoryKinds ==
    {"missing_argument", "directory_exists", "system_directory",
     "directory_without_recursive"}

FilesystemThreats(a) ==
    LET IsFilesystemThreat(t) == t.Type = "filesystem_error"
    IN  SelectSeq(a.threats, IsFilesystemThreat)

PromotedErrors(a) ==
    LET IsPromoted(fsError) == fsError.Type \in PromotedKinds
    IN  SelectSeq(a.fsErrors, IsPromoted)

\* C17: the filesystem threats Analyze adds are, in order, one High-level
\* threat per filesystem error of kind directory_not_found, file_not_found
\* or parent_directory_not_found, carrying the error's description and
\* command; errors of the other kinds add none.
C17_PromotedErrorKinds ==
    \A r \in analyzed :
        LET threats == FilesystemThreats(analyzers[r])
            promoted == PromotedErrors(analyzers[r])
        IN  /\ Len(threats) = Len(promoted)
            /\ \A i \in DOMAIN threats :
                   /\ threats[i].Level = "HIGH"
                   /\ threats[i].Description = promoted[i].Description
                   /\ threats[i].Command = promoted[i].Command
            /\ \A i \in DOMAIN analyzers[r].fsErrors :
                   analyzers[r].fsErrors[i].Type \in PromotedKinds \cup AdvisoryKinds

\* a run has returned with errors of a promoted kind and of an advisory kind
C17_Witness ==
    \E r \in analyzed :
        /\ \E i \in DOMAIN analyzers[r].fsErrors :
               analyzers[r].fsErrors[i].Type \in AdvisoryKinds
        /\ \E i \in DOMAIN analyzers[r].fsErrors :
               analyzers[r].fsErrors[i].Type = "parent_directory_not_found"
        /\ Len(FilesystemThreats(analyzers[r])) >= 1

(***************************************************************************)
(* The pattern tables, under SpecAnalyze.  The command lists carry one     *)
(* command per line, so a threat belongs to the command of its line.       *)
(***************************************************************************)
\* the patterns of a table that match the raw text
Matching(table, raw) == {pattern \in DOMAIN table : MatchString(pattern, raw)}

\* the threats of a run for the command of a line, of one type
ThreatsAt(a, line, threatType) ==
    LET IsOne(t) == t.Line = line /\ t.Type = threatType
    IN  SelectSeq(a.threats, IsOne)

\* the threats of a run for the command of a line that the network table made
NetworkTableThreatsAt(a, line) ==
    LET IsOne(t) == /\ t.Line = line
                    /\ t.Type = "suspicious_network"
                    /\ \E pattern \in DOMAIN networkPatterns :
                           t.Description = networkPatterns[pattern]
    IN  SelectSeq(a.threats, IsOne)

\* cmd is an rm with a recursive and force flag combination and an argument
\* that is a path not starting with "./"
IsForcedRecursiveRm(cmd) ==
    /\ cmd.Command = "rm"
    /\ \/ "rf" \in DOMAIN cmd.Flags
       \/ {"r", "f"} \subseteq DOMAIN cmd.Flags
    /\ \E i \in DOMAIN cmd.Arguments :
           Contains(cmd.Arguments[i], "/") /\ ~HasPrefix(cmd.Arguments[i], "./")

\* cmd is a dd with a /dev/ argument
IsDeviceDd(cmd) ==
    /\ cmd.Command = "dd"
    /\ \E i \in DOMAIN cmd.Arguments : Contains(cmd.Arguments[i], "/dev/")

\* C18: a command whose raw text matches the critical table gets one Critical
\* threat from the table, and the specific checks still run for it: a forced
\* recursive rm of a non-relative path still gets its dangerous-deletion
\* threat and a dd with a /dev/ argument its disk-manipulation threat.
C18_SpecificChecksStillRun ==
    \A r \in analyzed : \A i \in DOMAIN commands :
        Matching(criticalPatterns, commands[i].Raw) # {} =>
            /\ Len(ThreatsAt(analyzers[r], i, "critical_command")) = 1
            /\ ThreatsAt(analyzers[r], i, "critical_command")[1].Level = "CRITICAL"
            /\ IsForcedRecursiveRm(commands[i]) =>
                   Len(ThreatsAt(analyzers[r], i, "dangerous_deletion")) >= 1
            /\ IsDeviceDd(commands[i]) =>
                   Len(ThreatsAt(analyzers[r], i, "disk_manipulation")) >= 1

\* C19: for every command, the critical table and the privilege table each
\* add one threat when any of their patterns matches and never more, and the
\* network table adds one Medium threat per matching pattern.
C19_FirstMatchOrAllMatches ==
    \A r \in analyzed : \A i \in DOMAIN commands :
        LET raw == commands[i].Raw
            network == NetworkTableThreatsAt(analyzers[r], i)
        IN  /\ Len(ThreatsAt(analyzers[r], i, "critical_command"))
                   = (IF Matching(criticalPatterns, raw) # {} THEN 1 ELSE 0)
            /\ Len(ThreatsAt(analyzers[r], i, "privilege_escalation"))
                   = (IF Matching(privilegePatterns, raw) # {} THEN 1 ELSE 0)
            /\ Len(network) = Cardinality(Matching(networkPatterns, raw))
            /\ \A k \in DOMAIN network : network[k].Level = "MEDIUM"
            /\ {network[k].Description : k \in DOMAIN network}
                   = {networkPatterns[pattern] : pattern \in Matching(networkPatterns, raw)}

\* a run has returned for a list with a command that matches two patterns of
\* the network table and a command that matches two patterns of the critical
\* or of the privilege table
C19_Witness ==
    \E r \in analyzed : \E i, j \in DOMAIN commands :
        /\ Cardinality(Matching(networkPatterns, commands[i].Raw)) = 2
        /\ Len(NetworkTableThreatsAt(analyzers[r], i)) = 2
        /\ \/ Cardinality(Matching(criticalPatterns, commands[j].Raw)) = 2
           \/ Cardinality(Matching(privilegePatterns, commands[j].Raw)) = 2
        /\ Len(ThreatsAt(analyzers[r], j, "critical_command"))
               + Len(ThreatsAt(analyzers[r], j, "privilege_escalation")) = 1

(***************************************************************************)
(* Command and Argument words, under SpecLex.                              *)
(***************************************************************************)
\* only spaces and tabs lie between position pos of the input and the start
\* of the input or the most recent newline, `;` or `|`
AfterSeparator(input, pos) ==
    \E k \in 0..pos :
        /\ k = 0 \/ ByteAt(input, k - 1) \in {"\n", ";", "|"}
        /\ \A m \in k..(pos - 1) : ByteAt(input, m) \in {" ", "\t"}

\* C20: a nextToken call that emits a plain word (a Command or an Argument
\* token) for the text at the position emits a Command exactly when only
\* spaces and tabs lie between the word and the start of the input or the
\* most recent newline, `;` or `|`, and an Argument otherwise; so the first
\* word of an input that begins with spaces is a Command.
C20_CommandAtStatementStart ==
    [][(/\ lexPc = "scan"
        /\ Len(lex'.tokens) = Len(lex.tokens) + 1
        /\ lex'.tokens[Len(lex'.tokens)].Type \in {"COMMAND", "ARGUMENT"})
       => (lex'.tokens[Len(lex'.tokens)].Type = "COMMAND"
              <=> AfterSeparator(lex.input, lex.position))]_vars

(***************************************************************************)
(* Flag words, under SpecLex.                                              *)
(***************************************************************************)
\* the text at position pos of the input is one or two dashes followed by a
\* word character
DashWordAt(input, pos) ==
    /\ pos + 1 < Len(input)
    /\ ByteAt(input, pos) = "-"
    /\ \/ ByteAt(input, pos + 1) \in WordClass
       \/ /\ pos + 2 < Len(input)
          /\ ByteAt(input, pos + 1) = "-"
          /\ ByteAt(input, pos + 2) \in WordClass

\* C21: a nextToken call at one or two dashes followed by a name emits a
\* single Flag token that starts at the dashes and covers the name, and
\* reports no lexical error; and every Flag token a call emits starts with a
\* dash.
C21_DashWordIsFlag ==
    [][lexPc = "scan" =>
          /\ DashWordAt(lex.input, lex.position) =>
                 /\ lex'.errors = lex.errors
                 /\ Len(lex'.tokens) = Len(lex.tokens) + 1
                 /\ lex'.tokens[Len(lex'.tokens)].Type = "FLAG"
                 /\ lex'.tokens[Len(lex'.tokens)].Position = lex.position
                 /\ Len(lex'.tokens[Len(lex'.tokens)].Value) >= 2
          /\ (/\ Len(lex'.tokens) = Len(lex.tokens) + 1
              /\ lex'.tokens[Len(lex'.tokens)].Type = "FLAG") =>
                 HasPrefix(lex'.tokens[Len(lex'.tokens)].Value, "-")]_vars

\* C21, second half alone: every Flag token starts with a dash.
C21_FlagHasLeadingDash ==
    \A i \in DOMAIN lex.tokens :
        lex.tokens[i].Type = "FLAG" => HasPrefix(lex.tokens[i].Value, "-")

(***************************************************************************)
(* Piped statements, under SpecParse.                                      *)
(***************************************************************************)
\* the tokens of the statement the parser is at
StatementAt(p) == collectStatement([p |-> p, tokens |-> <<>>]).tokens

\* the parser is at the first token of a statement that starts with a
\* Command token and holds a Pipe token
AtPipedStatement ==
    /\ parsePc = "parse"
    /\ parser.position < Len(parser.tokens)
    /\ parserCurrent(parser).Type = "COMMAND"
    /\ hasPipes(StatementAt(parser))

\* a segment parsed by the rules of a non-piped statement: the argument loop
\* of parseCommand on the tokens of the segment, started without warnings
SegmentAsStatement(group, line) ==
    argumentLoop([p |-> NewParser(<<>>),
                  cmd |-> NewCommandAST(group[1].Value, line, ""),
                  i |-> 2], group, FALSE)

\* the warnings of the segments from i on, parsed as non-piped statements
RECURSIVE SegmentWarnings(_, _, _)
SegmentWarnings(groups, i, line) ==
    IF i > Len(groups) THEN <<>>
    ELSE SegmentAsStatement(groups[i], line).p.warnings
             \o SegmentWarnings(groups, i + 1, line)

\* node is the node of the segment under the rules of a non-piped statement,
\* with an empty pipeline unless it is the first
IsSegmentNode(node, group, line) ==
    LET ref == SegmentAsStatement(group, line).cmd
    IN  /\ node.Command = group[1].Value
        /\ node.Arguments = ref.Arguments
        /\ node.Flags = ref.Flags
        /\ node.Redirects = ref.Redirects

\* C22: the step that parses a statement with a Pipe token returns one node
\* for the first segment whose pipeline holds, in order, one node per
\* following segment, each with an empty pipeline; every segment is parsed
\* by the rules of a non-piped statement: a segment without a leading
\* Command token is reported as an "expected command" syntax error, and the
\* warnings are those the rules of a non-piped statement give.
C22_PipedStatement ==
    [][AtPipedStatement =>
          LET line == parserCurrent(parser).Line
              groups == splitAtPipes(StatementAt(parser),
                                     [groups |-> <<>>, currentGroup |-> <<>>])
          IN  IF \A i \in DOMAIN groups : groups[i][1].Type = "COMMAND"
              THEN /\ Len(parser'.commands) = Len(parser.commands) + 1
                   /\ LET node == parser'.commands[Len(parser'.commands)]
                      IN  /\ IsSegmentNode(node, groups[1], line)
                          /\ Len(node.Pipes) = Len(groups) - 1
                          /\ \A i \in DOMAIN node.Pipes :
                                 /\ IsSegmentNode(node.Pipes[i], groups[i + 1], line)
                                 /\ node.Pipes[i].Pipes = <<>>
                   /\ parser'.warnings =
                          parser.warnings \o SegmentWarnings(groups, 1, line)
              ELSE \E i \in DOMAIN parser'.errors :
                       /\ i > Len(parser.errors)
                       /\ parser'.errors[i].Message = "Se esperaba un comando"]_vars

\* C22, first half alone: all segments start with a Command token and the
\* step returns the flattened node
C22_FlattenedPipeline ==
    [][(/\ AtPipedStatement
        /\ \A i \in DOMAIN splitAtPipes(StatementAt(parser),
                               [groups |-> <<>>, currentGroup |-> <<>>]) :
               splitAtPipes(StatementAt(parser),
                   [groups |-> <<>>, currentGroup |-> <<>>])[i][1].Type = "COMMAND") =>
          /\ Len(parser'.commands) = Len(parser.commands) + 1
          /\ Len(parser'.commands[Len(parser'.commands)].Pipes) =
                 Len(splitAtPipes(StatementAt(parser),
                         [groups |-> <<>>, currentGroup |-> <<>>])) - 1
          /\ \A i \in DOMAIN parser'.commands[Len(parser'.commands)].Pipes :
                 parser'.commands[Len(parser'.commands)].Pipes[i].Pipes = <<>>]_vars

(***************************************************************************)
(* cp, under SpecFs.                                                       *)
(***************************************************************************)
\* the last command replayed is `cp src dst`
LastIsCp == last.cmd.Command = "cp" /\ Len(last.cmd.Arguments) >= 2

\* C23 as stated: after a `cp src dst` that returned no error the resolved
\* dst is a known file, and after one that returned an error the state is
\* the state before.
C23_CpAddsDestination ==
    LastIsCp =>
        /\ last.errors = <<>> =>
               resolvePath(last.before, last.cmd.Arguments[2]) \in fsState.files
        /\ last.errors # <<>> => fsState = last.before

\* C23: after a `cp src dst` that returned no error and whose src resolved
\* to a known file, the resolved dst is a known file; after one that
\* returned no error and whose src resolved to a known directory only, and
\* after one that returned an error, the state is the state before.
C23_CpAddsDestinationOfFile ==
    LastIsCp =>
        IF /\ last.errors = <<>>
           /\ resolvePath(last.before, last.cmd.Arguments[1]) \in last.before.files
        THEN fsState = [last.before EXCEPT
                           !.files = @ \cup {resolvePath(last.before,
                                                         last.cmd.Arguments[2])}]
        ELSE fsState = last.before

\* a cp of a known file to a path that was not a known file has succeeded
C23_Witness ==
    /\ LastIsCp
    /\ last.errors = <<>>
    /\ resolvePath(last.before, last.cmd.Arguments[1]) \in last.before.files
    /\ resolvePath(last.before, last.cmd.Arguments[2]) \notin last.before.files
    /\ resolvePath(last.before, last.cmd.Arguments[2]) \in fsState.files

(***************************************************************************)
(* The symbolic entries, under SpecFs.                                     *)
(***************************************************************************)
\* `cd`, `cd .`, `cd ..` and `cd ~`
SymbolicCds == {MkCmd("cd", a, NoFlags) : a \in {<<>>, <<".">>, <<"..">>, <<"~">>}}

\* C24: in every reachable filesystem state, replaying `cd .`, `cd ..`,
\* `cd ~` or `cd` without argument returns no directory_not_found error.
C24_SymbolicAlwaysResolvable ==
    \A cmd \in SymbolicCds :
        "directory_not_found" \notin ErrorTypes(ProcessCommand(fsState, cmd).errors)

\* C24 for the states that still hold every seed directory
C24_WithSeedDirectories ==
    C3_BuiltinProtected => C24_SymbolicAlwaysResolvable

(***************************************************************************)
(* Commands that do not change the filesystem state, under SpecFs.         *)
(***************************************************************************)
\* the commands that change the state
MutatingCommands == {"mkdir", "cd", "rmdir", "touch", "rm", "cp", "mv"}

\* C25: after replaying a command whose name is none of mkdir, cd, rmdir,
\* touch, rm, cp, mv, the current directory, the directories and the files
\* are those before the command, whatever the pipeline of the node holds;
\* and if the name is not a read-style command either, no error is returned.
C25_OtherCommandsFrame ==
    (nCmds > 0 /\ last.cmd.Command \notin MutatingCommands) =>
        /\ fsState.currentDirectory = last.before.currentDirectory
        /\ fsState.directories = last.before.directories
        /\ fsState.files = last.before.files
        /\ last.cmd.Command \notin ReadCommands => last.errors = <<>>

\* `ls | mkdir foo` has been replayed, as the second command or later, in a
\* state where foo was neither a known directory nor a known file
C25_Witness ==
    /\ last.cmd.Command = "ls"
    /\ Len(last.cmd.Pipes) = 1
    /\ last.cmd.Pipes[1].Command = "mkdir"
    /\ resolvePath(last.before, "foo") \notin last.before.directories
    /\ resolvePath(last.before, "foo") \notin last.before.files
    /\ nCmds >= 2

(***************************************************************************)
(* Dependency chains, under SpecFsThreats: AnalyzeWithFileSystem calls     *)
(* Analyze and then buildDependencyChains on the same analyzer, so the     *)
(* chains are computed from the filesystem state Analyze has left.         *)
(***************************************************************************)
\* the switch of buildDependencyChains: the dependencies of one command
dependenciesOf(fs, cmd) ==
    LET NotFlag(arg) == ~HasPrefix(arg, "-")
        NoFile(arg) == NotFlag(arg) /\ resolvePath(fs, arg) \notin fs.files
        NoFileNoDir(arg) ==
            /\ NotFlag(arg)
            /\ resolvePath(fs, arg) \notin fs.files
            /\ resolvePath(fs, arg) \notin fs.directories
        touches(args) == [i \in DOMAIN args |-> "touch " \o args[i]]
    IN  IF cmd.Command = "cd"
        THEN IF /\ Len(cmd.Arguments) > 0
                /\ resolvePath(fs, cmd.Arguments[1]) \notin fs.directories
             THEN <<"mkdir " \o cmd.Arguments[1]>> ELSE <<>>
        ELSE IF cmd.Command \in {"cat", "less", "more", "head", "tail"}
        THEN touches(SelectSeq(cmd.Arguments, NoFile))
        ELSE IF cmd.Command \in {"cp", "mv"}
        THEN IF /\ Len(cmd.Arguments) >= 2
                /\ resolvePath(fs, cmd.Arguments[1]) \notin fs.files
                /\ resolvePath(fs, cmd.Arguments[1]) \notin fs.directories
             THEN <<"touch " \o cmd.Arguments[1]>> ELSE <<>>
        ELSE IF cmd.Command = "rm"
        THEN touches(SelectSeq(cmd.Arguments, NoFileNoDir))
        ELSE <<>>

\* Analyzer.buildDependencyChains, over commandList[i..]
RECURSIVE buildDependencyChains(_, _, _)
buildDependencyChains(a, commandList, i) ==
    IF i > Len(commandList) THEN <<>>
    ELSE LET cmd == commandList[i]
             dependencies == dependenciesOf(a.filesystemState, cmd)
         IN  (IF Len(dependencies) > 0
              THEN <<[Command |-> cmd.Raw, Line |-> cmd.Line,
                      Dependencies |-> dependencies]>>
              ELSE <<>>)
             \o buildDependencyChains(a, commandList, i + 1)

\* the Dependencies field of what AnalyzeWithFileSystem returns, a being the
\* analyzer after Analyze
Dependencies(a, commandList) == buildDependencyChains(a, commandList, 1)

\* the arguments of cmd that are paths and resolve to neither a known file
\* nor a known directory of fs; cmd is a filesystem command or a read-style
\* command
MissingPaths(fs, cmd) ==
    IF cmd.Command \in MutatingCommands \cup ReadCommands
    THEN {cmd.Arguments[i] : i \in {j \in DOMAIN cmd.Arguments :
              /\ ~HasPrefix(cmd.Arguments[j], "-")
              /\ resolvePath(fs, cmd.Arguments[j]) \notin fs.files
              /\ resolvePath(fs, cmd.Arguments[j]) \notin fs.directories}}
    ELSE {}

\* C26: after Analyze, the dependency chains hold an entry for a command of
\* the list exactly when one of the paths the command names is neither a
\* known file nor a known directory of the final state, and the entry lists
\* a `mkdir` or `touch` prerequisite for each such path.
C26_ChainIffMissingPath ==
    \A r \in analyzed :
        LET fs == analyzers[r].filesystemState
            chains == Dependencies(analyzers[r], commands)
        IN  \A i \in DOMAIN commands :
                LET entries == {k \in DOMAIN chains : chains[k].Line = commands[i].Line}
                    missing == MissingPaths(fs, commands[i])
                IN  /\ entries # {} <=> missing # {}
                    /\ \A k \in entries :
                           /\ chains[k].Command = commands[i].Raw
                           /\ \A path \in missing :
                                  \E d \in DOMAIN chains[k].Dependencies :
                                      chains[k].Dependencies[d]
                                          \in {"mkdir " \o path, "touch " \o path}

(***************************************************************************)
(* The shape of the filesystem state, under SpecFs.                        *)
(***************************************************************************)
\* C27: in every reachable filesystem state the current directory is an
\* absolute path and a known directory.
C27_CurrentDirectoryKnown ==
    /\ HasPrefix(fsState.currentDirectory, "/")
    /\ fsState.currentDirectory \in fsState.directories

\* C27 for one more command: replaying `rmdir .` in a state whose current
\* directory is known leaves the current directory known
C27_RmdirKeepsCurrent ==
    fsState.currentDirectory \in fsState.directories =>
        LET r == ProcessCommand(fsState, MkCmd("rmdir", <<".">>, NoFlags))
        IN  r.fs.currentDirectory \in r.fs.directories

\* the parent directory of every known file is a known directory
ParentsKnown(f) == \A file \in f.files : Dir(file) \in f.directories

\* no path is a known file and a known directory
FilesApartFromDirectories(f) == f.files \cap f.directories = {}

\* C28: in every reachable filesystem state the parent directory of every
\* known file is a known directory, and no path is at once a known file and
\* a known directory.
C28_ConsistentTree ==
    ParentsKnown(fsState) /\ FilesApartFromDirectories(fsState)

\* C28, first half alone
C28_ParentsKnown == ParentsKnown(fsState)

\* C28, second half alone
C28_FilesApartFromDirectories == FilesApartFromDirectories(fsState)

(***************************************************************************)
(* Token positions, under SpecLex.                                         *)
(***************************************************************************)
\* the text of the input from byte index pos on, n bytes long, or NUL when
\* that range is not within the input
TextAt(input, pos, n) ==
    IF pos >= 0 /\ pos + n <= Len(input) THEN SubSeq(input, pos + 1, pos + n) ELSE NUL

\* C29: when Tokenize returns, the Position of every token is the index at
\* which its Value starts in the input, and the Positions increase strictly
\* along the token list, the EOF token included.
C29_PositionIsStart ==
    lexPc = "done" =>
        /\ \A i \in DOMAIN lex.tokens :
               LET t == lex.tokens[i]
               IN  t.Type # "EOF" => TextAt(lex.input, t.Position, Len(t.Value)) = t.Value
        /\ \A i \in 1..(Len(lex.tokens) - 1) :
               lex.tokens[i].Position < lex.tokens[i + 1].Position

\* C29 without the tokens emitted before the position is advanced: Newline,
\* Pipe and Operator
C29_WordPositionIsStart ==
    lexPc = "done" =>
        \A i \in DOMAIN lex.tokens :
            LET t == lex.tokens[i]
            IN  t.Type \notin {"NEWLINE", "PIPE", "OPERATOR", "EOF"}
                    => TextAt(lex.input, t.Position, Len(t.Value)) = t.Value

(***************************************************************************)
(* The commands suggested, under SpecSpell.                                *)
(***************************************************************************)
\* the commands of a suggestion: the suggested one and the alternatives
SuggestedCommands(suggestion) ==
    {suggestion.Suggested}
        \cup {suggestion.Alternatives[i].Command : i \in DOMAIN suggestion.Alternatives}

\* C30: whenever CheckSpelling returns a suggestion, the suggested command
\* and every alternative are known commands and differ from the input,
\* whether the suggestion comes from the typo table or from the search.
C30_SuggestionsAreKnown ==
    (spell.pc = "responded" /\ spell.suggestion # <<>>) =>
        \A c \in SuggestedCommands(spell.suggestion[1]) :
            c \in knownCommands /\ c # spell.command

\* C30 for the suggestions of the edit-distance search alone
C30_SearchedSuggestionsAreKnown ==
    (spell.pc = "responded" /\ spell.suggestion # <<>> /\ spell.searched) =>
        \A c \in SuggestedCommands(spell.suggestion[1]) :
            c \in knownCommands /\ c # spell.command

====
